---- MODULE Spec2Model ----
(***************************************************************************)
(* Model of the live tick-to-candle aggregator of core/fyers/processor.py  *)
(* (CandleAggregator, process_live_data, clear_processor_state) and of the *)
(* helpers it calls.                                                       *)
(*                                                                         *)
(* Conventions                                                             *)
(*   - prices are integers in hundredths (100.00 is 10000): the number p   *)
(*     stands for the double nearest to p / 100.  The bucket width         *)
(*     B = bucket_size * multiplier is in hundredths as well.              *)
(*   - a Python value that may be None is a tuple: <<>> is None, <<v>> is  *)
(*     the value v.  A dict entry that is absent is None as well.          *)
(*   - timestamps are unix seconds.                                        *)
(***************************************************************************)
EXTENDS Integers, Sequences, FiniteSets, TLC

None == <<>>
Some(v) == <<v>>
IsNone(o) == o = <<>>
IsSome(o) == o # <<>>
Val(o) == o[1]

Max2(a, b) == IF a >= b THEN a ELSE b
Min2(a, b) == IF a <= b THEN a ELSE b

\* s[i] + ... + s[j], by halves (long ladders are summed too)
RECURSIVE SumRange(_, _, _)
SumRange(s, i, j) ==
    IF i > j THEN 0
    ELSE IF i = j THEN s[i]
    ELSE SumRange(s, i, (i + j) \div 2) + SumRange(s, (i + j) \div 2 + 1, j)

SumSeq(s) == SumRange(s, 1, Len(s))

\* ---------------------------------------------------------------- floats
\*
\* Python floats are IEEE-754 doubles: 53 significant bits, every operation
\* rounded to the nearest double (ties to the even mantissa).  The mantissas
\* do not fit the integers of the checker, so exact naturals are kept as
\* little-endian sequences of limbs below Limb.

Limb == 2 ^ 10

RECURSIVE BigOf(_)
\* the natural n as limbs
BigOf(n) == IF n < Limb THEN <<n>> ELSE <<n % Limb>> \o BigOf(n \div Limb)

RECURSIVE BigInt(_)
\* the value of limbs that fit an integer
BigInt(a) == IF a = <<>> THEN 0 ELSE a[1] + Limb * BigInt(Tail(a))

RECURSIVE BigTimes(_, _, _)
\* a * k + carry, for k below 2^20
BigTimes(a, k, carry) ==
    IF a = <<>> THEN (IF carry = 0 THEN <<>> ELSE BigOf(carry))
    ELSE <<(a[1] * k + carry) % Limb>> \o BigTimes(Tail(a), k, (a[1] * k + carry) \div Limb)

RECURSIVE BigPlus(_, _, _)
\* a + b + carry
BigPlus(a, b, carry) ==
    IF a = <<>> /\ b = <<>> THEN (IF carry = 0 THEN <<>> ELSE <<carry>>)
    ELSE IF a = <<>> THEN BigPlus(<<0>>, b, carry)
    ELSE IF b = <<>> THEN BigPlus(a, <<0>>, carry)
    ELSE <<(a[1] + b[1] + carry) % Limb>>
         \o BigPlus(Tail(a), Tail(b), (a[1] + b[1] + carry) \div Limb)

RECURSIVE BigTimesInt(_, _)
\* a * n for any natural n
BigTimesInt(a, n) ==
    IF n < Limb * Limb THEN BigTimes(a, n, 0)
    ELSE BigPlus(BigTimes(a, n % Limb, 0), <<0>> \o BigTimesInt(a, n \div Limb), 0)

RECURSIVE Pow2(_)
Pow2(n) == IF n = 0 THEN 1 ELSE 2 * Pow2(n - 1)

\* a * 2^bits
BigShl(a, bits) == [i \in 1..(bits \div 10) |-> 0] \o BigTimes(a, Pow2(bits % 10), 0)

RECURSIVE BigTrim(_)
\* without leading zero limbs
BigTrim(a) ==
    IF a = <<>> THEN a
    ELSE IF a[Len(a)] = 0 THEN BigTrim(SubSeq(a, 1, Len(a) - 1)) ELSE a

RECURSIVE BigGeqTrimmed(_, _)
BigGeqTrimmed(a, b) ==
    IF Len(a) # Len(b) THEN Len(a) > Len(b)
    ELSE IF a = <<>> THEN TRUE
    ELSE IF a[Len(a)] # b[Len(b)] THEN a[Len(a)] > b[Len(b)]
    ELSE BigGeqTrimmed(SubSeq(a, 1, Len(a) - 1), SubSeq(b, 1, Len(b) - 1))

\* a >= b
BigGeq(a, b) == BigGeqTrimmed(BigTrim(a), BigTrim(b))

RECURSIVE BitsOf(_)
\* number of bits of the integer n
BitsOf(n) == IF n = 0 THEN 0 ELSE 1 + BitsOf(n \div 2)

\* number of bits of a
BigBitsTrimmed(a) == IF a = <<>> THEN 0 ELSE 10 * (Len(a) - 1) + BitsOf(a[Len(a)])
BigBits(a) == BigBitsTrimmed(BigTrim(a))

RECURSIVE BigDivRev(_, _, _)
\* short division, most significant limb first: the quotient's limbs (most
\* significant first) for the limbs a (least significant first) and rem
BigDivRev(a, d, rem) ==
    IF a = <<>> THEN <<>>
    ELSE <<(rem * Limb + a[Len(a)]) \div d>>
         \o BigDivRev(SubSeq(a, 1, Len(a) - 1), d, (rem * Limb + a[Len(a)]) % d)

Reversed(s) == [i \in 1..Len(s) |-> s[Len(s) + 1 - i]]

\* floor(a / d), for d below 2^20
BigDiv(a, d) == Reversed(BigDivRev(a, d, 0))

\* floor(a / 2^bits)
BigShr(a, bits) ==
    IF bits \div 10 >= Len(a) THEN <<>>
    ELSE BigDiv(SubSeq(a, bits \div 10 + 1, Len(a)), Pow2(bits % 10))

BigOdd(q) == q # <<>> /\ q[1] % 2 = 1

\* q or q + 1: the quotient q = floor(a / b) rounded to the nearest natural, a
\* tie to the even one, for a2 = 2 * a and t = (2 * q + 1) * b
BigRounded(a2, t, q) ==
    IF BigGeq(a2, t) /\ (BigOdd(q) \/ ~BigGeq(t, a2)) THEN BigPlus(q, <<1>>, 0) ELSE q

NearestDivQ(a, d, q) == BigRounded(BigTimes(a, 2, 0), BigTimes(BigTimes(q, 2, 1), d, 0), q)
\* a / d to the nearest natural
NearestDiv(a, d) == NearestDivQ(a, d, BigDiv(a, d))

NearestShrQ(a, bits, q) == BigRounded(BigTimes(a, 2, 0), BigShl(BigTimes(q, 2, 1), bits), q)
\* a / 2^bits to the nearest natural
NearestShr(a, bits) == NearestShrQ(a, bits, BigShr(a, bits))

\* a positive double is [m, k]: the value m / 2^k with m below 2^53 (or 2^53)
DoubleAt(n, d, k) == [k |-> k, m |-> NearestDiv(BigShl(BigOf(n), k), d)]

\* the exponent that gives n / d at least 53 bits
DoubleExp(n, d) == 53 + BitsOf(d) - BitsOf(n)

\* float(n / d) as a literal is read: the double nearest to n / d (n, d > 0)
Double(n, d) ==
    IF BigBits(BigDiv(BigShl(BigOf(n), DoubleExp(n, d)), d)) > 53
    THEN DoubleAt(n, d, DoubleExp(n, d) - 1)
    ELSE DoubleAt(n, d, DoubleExp(n, d))

\* half the distance from the natural n down to the next double is 2^-s
HalfGapExp(n) == IF n = Pow2(BitsOf(n) - 1) THEN 55 - BitsOf(n) ELSE 54 - BitsOf(n)

\* x / y >= n in float division: the exact quotient is at least n minus half
\* the gap below n (n has an even mantissa and wins the tie)
QuotientAtLeast(x, y, n) ==
    BigGeq(BigPlus(BigShl(x.m, y.k + HalfGapExp(n)), BigShl(y.m, x.k), 0),
           BigShl(BigTimesInt(y.m, n), HalfGapExp(n) + x.k))

\* math.floor(x / y), which is the natural e or next to it
FloorNear(x, y, e) ==
    IF QuotientAtLeast(x, y, e + 1) THEN e + 1
    ELSE IF e = 0 \/ QuotientAtLeast(x, y, e) THEN e
    ELSE e - 1

DoubleCut(prod, k, bits) ==
    IF bits > 53 THEN [k |-> k - (bits - 53), m |-> NearestShr(prod, bits - 53)]
    ELSE [k |-> k, m |-> prod]
DoubleOf(prod, k) == DoubleCut(prod, k, BigBits(prod))
\* n * y for a natural n > 0
DoubleTimes(n, y) == DoubleOf(BigTimesInt(y.m, n), y.k)

\* round(z, 2) in hundredths
Round2(z) == BigInt(NearestShr(BigTimes(z.m, 100, 0), z.k))

\* round(z): the natural nearest to z, a half to the even one
RoundDouble(z) == BigInt(NearestShr(z.m, z.k))

\* int(round(n * (part / total))) for n, part > 0 and total > 0: the quotient
\* and the product are rounded to doubles before the half-to-even rounding
RoundShareOf(n, part, total) == RoundDouble(DoubleTimes(n, Double(part, total)))

\* the same for integers n and part of either sign (rounding is symmetric)
RoundShare(n, part, total) ==
    IF n = 0 \/ part = 0 THEN 0
    ELSE IF (n < 0) # (part < 0)
    THEN 0 - RoundShareOf(IF n < 0 THEN 0 - n ELSE n,
                          IF part < 0 THEN 0 - part ELSE part, total)
    ELSE RoundShareOf(IF n < 0 THEN 0 - n ELSE n,
                      IF part < 0 THEN 0 - part ELSE part, total)

\* math.floor(float(p / 100) / float(b / 100)) for p >= 0 and b > 0 in hundredths
FloorDiv(p, b) ==
    IF p = 0 THEN 0 ELSE FloorNear(Double(p, 100), Double(b, 100), p \div b)

\* ------------------------------------------------------------------ time

MARKET_OPEN_HOUR == 9
MARKET_OPEN_MINUTE == 15
\* UTC offset of the session zone 'Asia/Kolkata' (no DST)
IST_OFFSET == 19800

\* _INTERVAL_MAP.get(timeframe, 300)
IntervalOf(timeframe) ==
    CASE timeframe = "1m" -> 60
      [] timeframe = "5m" -> 300
      [] timeframe = "15m" -> 900
      [] timeframe = "1d" -> 86400
      [] OTHER -> 300

\* unix second of 09:15 session time on calendar day number d (days since epoch)
MarketOpenOfDate(d) ==
    d * 86400 + MARKET_OPEN_HOUR * 3600 + MARKET_OPEN_MINUTE * 60 - IST_OFFSET

\* calendar day of a timestamp seen in a zone with the given UTC offset
DateIn(ts, offset) == (ts + offset) \div 86400

\* (variant: every bin aligned to the epoch)
calculate_aligned_time_bin_epoch(timestamp, interval_seconds) ==
    (timestamp \div interval_seconds) * interval_seconds

calculate_aligned_time_bin(timestamp, interval_seconds) ==
    LET market_open_ts == MarketOpenOfDate(DateIn(timestamp, IST_OFFSET))
    IN  IF timestamp < market_open_ts
        THEN (timestamp \div interval_seconds) * interval_seconds
        ELSE market_open_ts
             + ((timestamp - market_open_ts) \div interval_seconds) * interval_seconds

\* get_market_open_timestamp(datetime.fromtimestamp(ts)): the calendar date is
\* taken in the host's local zone (naive datetime), 09:15 is taken in IST.
get_market_open_timestamp(ts, host) == MarketOpenOfDate(DateIn(ts, host))

\* CandleAggregator._is_first_candle_of_day: hour and minute of the naive
\* local datetime of the bin
is_first_candle_of_day(time_bin, timeframe, host) ==
    LET sod == (time_bin + host) % 86400
        hour == sod \div 3600
        minute == (sod % 3600) \div 60
    IN  IF timeframe \in {"1m", "5m", "15m"}
        THEN hour = MARKET_OPEN_HOUR /\ minute = MARKET_OPEN_MINUTE
        ELSE hour = MARKET_OPEN_HOUR /\ minute <= MARKET_OPEN_MINUTE + 5

\* normalize_timestamp_to_seconds for the numeric inputs of the model
\* (all below MS_THRESHOLD): t <= 0 is invalid, else int(t)
normalize_timestamp_to_seconds(raw_ts) ==
    IF IsNone(raw_ts) THEN None
    ELSE IF Val(raw_ts) <= 0 THEN None ELSE Some(Val(raw_ts))

\* ---------------------------------------------------------------- buckets

\* round(bucket_idx * bucket_value, 2) in hundredths
BucketPrice(bucket_idx, bucket_value) ==
    IF bucket_idx = 0 THEN 0
    ELSE Round2(DoubleTimes(bucket_idx, Double(bucket_value, 100)))

\* get_bucket_key with price >= 0 and bucket_value in hundredths; price_val
\* and bucket_value are the doubles nearest to price / 100 and
\* bucket_value / 100
get_bucket_key(price, bucket_value) ==
    IF bucket_value <= 0
    THEN (IF price = 0 THEN 0 ELSE Round2(Double(price, 100)))
    ELSE BucketPrice(FloorDiv(price, bucket_value), bucket_value)

\* -------------------------------------------------------------- allocator

\* (variant: the units left after flooring go to the leading indices)
proportional_alloc_leading(total, weights) ==
    LET n == Len(weights)
        s == SumSeq(weights)
        floored == [i \in 1..n |-> (total * weights[i]) \div s]
    IN  IF n = 0 THEN <<>>
        ELSE IF total <= 0 THEN [i \in 1..n |-> 0]
        ELSE IF s <= 0
        THEN LET base == total \div n
             IN  [i \in 1..n |-> IF i <= total - base * n THEN base + 1 ELSE base]
        ELSE [i \in 1..n |-> IF i <= total - SumSeq(floored)
                              THEN floored[i] + 1 ELSE floored[i]]

proportional_alloc(total, weights) ==
    LET n == Len(weights)
        s == SumSeq(weights)
    IN  IF n = 0 THEN <<>>
        ELSE IF total <= 0 THEN [i \in 1..n |-> 0]
        ELSE IF s <= 0
        THEN LET base == total \div n
                 rem == total - base * n
             IN  [i \in 1..n |-> IF i <= rem THEN base + 1 ELSE base]
        ELSE LET floored == [i \in 1..n |-> (total * weights[i]) \div s]
                 frac == [i \in 1..n |-> (total * weights[i]) % s]
                 rem == total - SumSeq(floored)
                 \* position of i when sorted by (fraction desc, index asc)
                 rank(i) == Cardinality({j \in 1..n :
                                 \/ frac[j] > frac[i]
                                 \/ (frac[j] = frac[i] /\ j < i)})
             IN  [i \in 1..n |-> IF rank(i) < rem THEN floored[i] + 1 ELSE floored[i]]

\* ------------------------------------------------------------- classifier

\* order-book pressure split used by methods 1 and 2
PressureSplit(msg, vol) ==
    LET b == RoundShare(vol, Val(msg.tot_buy_qty),
                        Val(msg.tot_buy_qty) + Val(msg.tot_sell_qty))
    IN  <<b, vol - b>>

HasBook(msg) == IsSome(msg.tot_buy_qty) /\ IsSome(msg.tot_sell_qty)

\* the even split used when no method decides
HalfSplit(vol) == <<vol \div 2, vol - (vol \div 2)>>

\* the split inside the spread: order-book pressure if there is any
BookSplit(msg, vol) ==
    IF HasBook(msg) /\ Val(msg.tot_buy_qty) + Val(msg.tot_sell_qty) > 0
    THEN PressureSplit(msg, vol) ELSE HalfSplit(vol)

\* (variant: a trade exactly at the ask or at the bid counts as inside the spread)
Method1_strict(msg, vol) ==
    IF IsSome(msg.bid_price) /\ IsSome(msg.ask_price) /\ IsSome(msg.ltp)
    THEN IF Val(msg.ask_price) >= Val(msg.bid_price)
         THEN IF Val(msg.ltp) > Val(msg.ask_price) THEN <<vol, 0>>
              ELSE IF Val(msg.ltp) < Val(msg.bid_price) THEN <<0, vol>>
              ELSE BookSplit(msg, vol)
         ELSE BookSplit(msg, vol)
    ELSE <<0, 0>>

\* Method 1: bid/ask spread analysis
Method1(msg, vol) ==
    IF IsSome(msg.bid_price) /\ IsSome(msg.ask_price) /\ IsSome(msg.ltp)
    THEN IF Val(msg.ask_price) >= Val(msg.bid_price)
         THEN IF Val(msg.ltp) >= Val(msg.ask_price) THEN <<vol, 0>>
              ELSE IF Val(msg.ltp) <= Val(msg.bid_price) THEN <<0, vol>>
              ELSE BookSplit(msg, vol)
         ELSE BookSplit(msg, vol)
    ELSE <<0, 0>>

\* Method 2: order book pressure, if method 1 gave nothing
Method2(msg, vol, m1) ==
    IF m1[1] + m1[2] = 0
       /\ HasBook(msg)
       /\ Val(msg.tot_buy_qty) + Val(msg.tot_sell_qty) > 0
    THEN PressureSplit(msg, vol) ELSE m1

\* Method 3: price change, if method 2 gave nothing
Method3(msg, vol, m2) ==
    IF m2[1] + m2[2] = 0
    THEN IF IsSome(msg.ch)
         THEN IF Val(msg.ch) > 0 THEN <<vol, 0>>
              ELSE IF Val(msg.ch) < 0 THEN <<0, vol>>
              ELSE HalfSplit(vol)
         ELSE HalfSplit(vol)
    ELSE m2

\* the remainder goes to the larger side (to buy on a tie)
AddRemainder(vol, bs) ==
    IF vol - (bs[1] + bs[2]) = 0 THEN bs
    ELSE IF bs[1] >= bs[2] THEN <<bs[1] + (vol - (bs[1] + bs[2])), bs[2]>>
    ELSE <<bs[1], bs[2] + (vol - (bs[1] + bs[2]))>>

\* (variant: the two sides returned without the clamp at 0)
FinalSplit_unclamped(vol, m3) == AddRemainder(vol, m3)

\* Final reconciliation
FinalSplit(vol, m3) == <<Max2(0, AddRemainder(vol, m3)[1]), Max2(0, AddRemainder(vol, m3)[2])>>

calculate_aggressor_volumes(msg, vol) ==
    IF vol <= 0 THEN <<0, 0>>
    ELSE FinalSplit(vol, Method3(msg, vol, Method2(msg, vol, Method1(msg, vol))))

\* ------------------------------------------------------- volume extractor

MaxCumJump == 2000000
MaxTickVol == 5000000

\* raw last_traded_qty when it is a positive number, else 0
RawQty(msg) ==
    IF IsSome(msg.last_traded_qty) /\ Val(msg.last_traded_qty) > 0
    THEN Val(msg.last_traded_qty) ELSE 0

\* (variant: any reported cumulative volume is taken, a negative one too)
ValidCum_any(msg) == IsSome(msg.vol_traded_today)

ValidCum(msg) == IsSome(msg.vol_traded_today) /\ Val(msg.vol_traded_today) >= 0

\* CandleAggregator._determine_trade_volume: the extracted volume and the new
\* values of _last_cum_volume (seen) and _last_processed_cum_volume (baseline)
determine_trade_volume(a, msg) ==
    LET q == RawQty(msg)
        last == a.last_processed_cum_volume
        seen == IF ValidCum(msg) THEN msg.vol_traded_today ELSE a.last_cum_volume
    IN  IF ValidCum(msg)
        THEN LET cur == Val(msg.vol_traded_today)
             IN  IF IsNone(last)
                 THEN [vol |-> q, seen |-> seen, lpcv |-> Some(cur)]
                 ELSE IF cur < Val(last)
                 THEN [vol |-> q, seen |-> seen, lpcv |-> Some(cur)]
                 ELSE LET delta == cur - Val(last)
                      IN  IF delta <= 0 \/ delta > MaxCumJump
                          THEN IF q > 0
                               THEN [vol |-> q, seen |-> seen, lpcv |-> Some(cur)]
                               ELSE [vol |-> 0, seen |-> seen, lpcv |-> last]
                          ELSE [vol |-> delta, seen |-> seen, lpcv |-> Some(cur)]
        ELSE [vol |-> q, seen |-> seen, lpcv |-> last]

\* ------------------------------------------------------ footprint helpers

\* the footprint map is a dict in insertion order: a sequence of entries
\* [k |-> bucket key, buy |-> .., sell |-> ..] with distinct keys
FpKeys(fp) == {fp[i].k : i \in 1..Len(fp)}
FpBuy(fp) == SumSeq([i \in 1..Len(fp) |-> fp[i].buy])
FpSell(fp) == SumSeq([i \in 1..Len(fp) |-> fp[i].sell])

\* fp[bucket]['buy'] += buy; fp[bucket]['sell'] += sell (entry created if absent)
FpAdd(fp, key, buy, sell) ==
    IF key \in FpKeys(fp)
    THEN [i \in 1..Len(fp) |->
            IF fp[i].k = key
            THEN [k |-> key, buy |-> fp[i].buy + buy, sell |-> fp[i].sell + sell]
            ELSE fp[i]]
    ELSE Append(fp, [k |-> key, buy |-> buy, sell |-> sell])

\* max(range(n), key=w): the first index of maximal weight
FirstMaxIndex(w) ==
    CHOOSE i \in 1..Len(w) :
        /\ \A j \in 1..Len(w) : w[j] <= w[i]
        /\ \A j \in 1..(i - 1) : w[j] < w[i]

LadderBuy(l) == SumSeq([i \in 1..Len(l) |-> l[i].buyVolume])
LadderSell(l) == SumSeq([i \in 1..Len(l) |-> l[i].sellVolume])

\* _get_fp_entry_with_tolerance: the first entry whose key equals the level
FpEntry(level, fp) ==
    IF level \in FpKeys(fp)
    THEN LET i == CHOOSE i \in 1..Len(fp) :
                     fp[i].k = level /\ \A j \in 1..(i - 1) : fp[j].k # level
         IN  [buy |-> fp[i].buy, sell |-> fp[i].sell]
    ELSE [buy |-> 0, sell |-> 0]

\* _proportional_alloc_signed: the allocation of |delta| with the sign of
\* delta restored per position
proportional_alloc_signed(delta, weights) ==
    IF delta = 0 THEN [i \in 1..Len(weights) |-> 0]
    ELSE [i \in 1..Len(weights) |->
            (IF delta > 0 THEN 1 ELSE 0 - 1)
              * proportional_alloc(IF delta > 0 THEN delta ELSE 0 - delta, weights)[i]]

MaxIters == 5000

\* the negative difference is handed to the unsigned allocator, which
\* returns zeros for total <= 0
LadderAlloc(d, weights) ==
    IF d # 0 THEN proportional_alloc(d, weights) ELSE [i \in 1..Len(weights) |-> 0]

\* the window of bucket indexes of the ladder: <<min_idx, max_idx>>
LadderWindow(candle, bucket_value) ==
    LET lo_idx == candle.low \div bucket_value
        hi_idx == candle.high \div bucket_value
        start == ((lo_idx + hi_idx) \div 2) - (MaxIters \div 2)
    IN  IF hi_idx - lo_idx + 1 > MaxIters
        THEN <<start, start + MaxIters - 1>>
        ELSE <<lo_idx, hi_idx>>

LadderRow(level, e) == [buyVolume |-> e.buy, sellVolume |-> e.sell, priceLevel |-> level]

\* (variant: the rows left in the order of the loop, lowest level first)
Ladder_unsorted(fp_map, bucket_value, w) ==
    [i \in 1..(w[2] - w[1] + 1) |->
        LadderRow((w[1] + i - 1) * bucket_value,
                  FpEntry((w[1] + i - 1) * bucket_value, fp_map))]

\* one row per bucket of the window, sorted by price level descending
Ladder(fp_map, bucket_value, w) ==
    [i \in 1..(w[2] - w[1] + 1) |->
        LadderRow((w[2] - i + 1) * bucket_value,
                  FpEntry((w[2] - i + 1) * bucket_value, fp_map))]

LadderWeights(l) == [i \in 1..Len(l) |-> l[i].buyVolume + l[i].sellVolume]

\* the ladder with the allocations added level by level
LadderPlus(l, add_buys, add_sells) ==
    [i \in 1..Len(l) |->
        [buyVolume |-> Max2(0, l[i].buyVolume + add_buys[i]),
         sellVolume |-> Max2(0, l[i].sellVolume + add_sells[i]),
         priceLevel |-> l[i].priceLevel]]

\* the differences spread over the levels in proportion to their volume
LadderSpread(l, d_buy, d_sell) ==
    IF LadderBuy(l) + LadderSell(l) > 0
    THEN LadderPlus(l, LadderAlloc(d_buy, LadderWeights(l)),
                    LadderAlloc(d_sell, LadderWeights(l)))
    ELSE l

\* what is still missing goes to the level idx
LadderFixAt(l, idx, d_buy, d_sell) ==
    [i \in 1..Len(l) |->
        IF i = idx
        THEN [buyVolume |-> Max2(0, l[i].buyVolume + d_buy),
              sellVolume |-> Max2(0, l[i].sellVolume + d_sell),
              priceLevel |-> l[i].priceLevel]
        ELSE l[i]]

\* final fix-up at the level of largest volume
LadderFix(l, tgt_buy, tgt_sell) ==
    IF LadderBuy(l) # tgt_buy \/ LadderSell(l) # tgt_sell
    THEN LadderFixAt(l, FirstMaxIndex(LadderWeights(l)),
                     tgt_buy - LadderBuy(l), tgt_sell - LadderSell(l))
    ELSE l

\* the ladder reconciled with the candle's totals
LadderReconciled(l, tgt_buy, tgt_sell) ==
    IF tgt_buy - LadderBuy(l) # 0 \/ tgt_sell - LadderSell(l) # 0
    THEN LadderFix(LadderSpread(l, tgt_buy - LadderBuy(l), tgt_sell - LadderSell(l)),
                   tgt_buy, tgt_sell)
    ELSE l

build_footprint_from_map(candle, fp_map, bucket_value) ==
    IF bucket_value <= 0 \/ fp_map = <<>> THEN <<>>
    ELSE IF candle.high \div bucket_value < candle.low \div bucket_value THEN <<>>
    ELSE LadderReconciled(Ladder(fp_map, bucket_value, LadderWindow(candle, bucket_value)),
                          candle.buy_vol, candle.sell_vol)

\* ------------------------------------------------------- CandleAggregator

RingCap == 200

\* CandleAggregator.__init__: the per-symbol dicts are empty
NewAggregator ==
    [last_processed_cum_volume |-> None, last_cum_volume |-> None, fp |-> <<>>, candle |-> None,
     ring |-> <<>>, last_ltp |-> None,
     session_cum_delta |-> 0, last_trading_day |-> None,
     current_candle_time |-> None]

\* a plain list: nothing is ever evicted
RingAppend_unbounded(ring, key) == Append(ring, key)

\* deque(maxlen=200).append
RingAppend(ring, key) ==
    IF Len(ring) >= RingCap THEN Append(Tail(ring), key) ELSE Append(ring, key)

InRing(ring, key) == \E i \in 1..Len(ring) : ring[i] = key

\* the volume-totals block left out: the split is kept as accumulated
ReconcileTotals_skipped(c) ==
    LET vol == c.volume
        buy == c.buy_vol
        sell == c.sell_vol
    IN  <<buy, sell>>

\* a candle that has no split yet: the price direction decides which side
\* the unaccounted volume joins
DirectionSplit(c, diff) ==
    IF c.close > c.open THEN <<diff, 0>>
    ELSE IF c.close < c.open THEN <<0, diff>>
    ELSE <<diff \div 2, diff - diff \div 2>>

\* volume-totals block of _reconcile_candle_and_footprint: the reconciled
\* (buy_vol, sell_vol) for a candle
ReconcileTotals(c) ==
    LET vol == c.volume
        buy == c.buy_vol
        sell == c.sell_vol
        diff == vol - (buy + sell)
        half == diff \div 2
    IN  IF diff = 0 THEN <<buy, sell>>
        ELSE IF diff < 0
        THEN IF buy + sell > 0
             THEN LET al == proportional_alloc(vol, <<buy, sell>>)
                  IN  <<Max2(0, al[1]), Max2(0, al[2])>>
             ELSE <<0, 0>>
        ELSE IF buy = 0 /\ sell = 0
        THEN DirectionSplit(c, diff)
        ELSE IF buy + sell > 0
        THEN LET ad == proportional_alloc(diff, <<buy, sell>>)
             IN  <<buy + ad[1], sell + ad[2]>>
        ELSE <<buy + half, sell + (diff - half)>>

\* footprint block of _reconcile_candle_and_footprint: the map after the
\* difference to the targets was applied
ReconcileFootprintMap(fp_map, tgt_buy, tgt_sell, close, bucket_value) ==
    LET cur_buy == FpBuy(fp_map)
        cur_sell == FpSell(fp_map)
        d_buy == tgt_buy - cur_buy
        d_sell == tgt_sell - cur_sell
        poc_bucket == get_bucket_key(close, bucket_value)
    IN  IF d_buy # 0 \/ d_sell # 0
        THEN IF fp_map # <<>>
             THEN LET largest == FirstMaxIndex([i \in 1..Len(fp_map) |->
                                                  fp_map[i].buy + fp_map[i].sell])
                  IN  [i \in 1..Len(fp_map) |->
                         IF i = largest
                         THEN [k |-> fp_map[i].k,
                               buy |-> IF d_buy > 0 THEN fp_map[i].buy + d_buy
                                       ELSE IF d_buy < 0 THEN Max2(0, fp_map[i].buy + d_buy)
                                       ELSE fp_map[i].buy,
                               sell |-> IF d_sell > 0 THEN fp_map[i].sell + d_sell
                                        ELSE IF d_sell < 0 THEN Max2(0, fp_map[i].sell + d_sell)
                                        ELSE fp_map[i].sell]
                         ELSE fp_map[i]]
             ELSE <<[k |-> poc_bucket, buy |-> tgt_buy, sell |-> tgt_sell]>>
        ELSE IF cur_buy + cur_sell > 0
        THEN [i \in 1..Len(fp_map) |->
                [k |-> fp_map[i].k, buy |-> Max2(0, fp_map[i].buy),
                 sell |-> Max2(0, fp_map[i].sell)]]
        ELSE IF poc_bucket \in FpKeys(fp_map)
        THEN [i \in 1..Len(fp_map) |->
                IF fp_map[i].k = poc_bucket
                THEN [k |-> poc_bucket, buy |-> tgt_buy, sell |-> tgt_sell]
                ELSE fp_map[i]]
        ELSE Append(fp_map, [k |-> poc_bucket, buy |-> tgt_buy, sell |-> tgt_sell])

\* the candle with the reconciled totals bs, its delta and cum_delta
WithTotals(c, bs, session_cum_delta) ==
    [c EXCEPT !.buy_vol = bs[1], !.sell_vol = bs[2], !.delta = bs[1] - bs[2],
              !.cum_delta = session_cum_delta + ((bs[1] - bs[2]) - c.delta)]

\* the aggregator holding candle c2, the reconciled map fp2 and the ladder
\* built from both
WithFootprint(a, c2, fp2, bucket_value) ==
    [a EXCEPT !.candle = Some([c2 EXCEPT !.footprint =
                                  build_footprint_from_map(c2, fp2, bucket_value)]),
              !.fp = fp2,
              !.session_cum_delta = c2.cum_delta]

\* the footprint block, for the totals bs
ReconcileFootprint(a, bs, bucket_value) ==
    WithFootprint(a, WithTotals(Val(a.candle), bs, a.session_cum_delta),
                  ReconcileFootprintMap(a.fp, bs[1], bs[2], Val(a.candle).close,
                                        bucket_value),
                  bucket_value)

\* CandleAggregator._reconcile_candle_and_footprint on an aggregator that
\* holds a candle
reconcile_candle_and_footprint(a, bucket_value) ==
    ReconcileFootprint(a, ReconcileTotals(Val(a.candle)), bucket_value)

\* the split of process_tick after "Ensure volumes sum correctly"
TickSplit(msg, vol) == AddRemainder(vol, calculate_aggressor_volumes(msg, vol))

\* is_new = (c is None or c.get('time') != time_bin)
IsNewCandle(c, time_bin) == IsNone(c) \/ Val(c).time # time_bin

\* the reset applied to every new candle
NeedsDayReset_always(last_trading_day, current_trading_day) == TRUE

\* the reset applied to the first candle only
NeedsDayReset_first(last_trading_day, current_trading_day) == IsNone(last_trading_day)

\* the day-reset test of the new-candle branch
NeedsDayReset(last_trading_day, current_trading_day) ==
    IsNone(last_trading_day) \/ current_trading_day # Val(last_trading_day)

\* the new-candle branch: day reset, then a candle opened by the tick
OpenCandle(a, msg, timeframe, host, time_bin, bucket, vol, buy, sell) ==
    LET ltp == Val(msg.ltp)
        current_trading_day == get_market_open_timestamp(time_bin, host)
        reset == NeedsDayReset(a.last_trading_day, current_trading_day)
        new_scd == (IF reset THEN 0 ELSE a.session_cum_delta) + (buy - sell)
        candle_open == IF IsSome(msg.open_price)
                          /\ is_first_candle_of_day(time_bin, timeframe, host)
                       THEN Val(msg.open_price) ELSE ltp
    IN  [a EXCEPT
           !.session_cum_delta = new_scd,
           !.last_trading_day = IF reset THEN Some(current_trading_day) ELSE @,
           !.current_candle_time = Some(time_bin),
           !.candle = Some(
               [delta |-> buy - sell, low |-> ltp,
                high |-> ltp, buy_vol |-> buy, sell_vol |-> sell,
                volume |-> vol, close |-> ltp, open |-> candle_open,
                cum_delta |-> new_scd, footprint |-> <<>>,
                time |-> time_bin, symbol |-> Some(msg.symbol),
                cum_volume |->
                    IF IsSome(a.last_processed_cum_volume)
                    THEN a.last_processed_cum_volume ELSE Some(vol)]),
           !.fp = <<[k |-> bucket, buy |-> buy, sell |-> sell]>>]

\* the update branch: the tick folded into the held candle
UpdateCandle(a, msg, bucket, vol, buy, sell) ==
    LET ltp == Val(msg.ltp)
        oc == Val(a.candle)
        upd_delta == (oc.buy_vol + buy) - (oc.sell_vol + sell)
        upd_scd == a.session_cum_delta + (upd_delta - oc.delta)
    IN  [a EXCEPT
           !.session_cum_delta = upd_scd,
           !.candle = Some(
               [oc EXCEPT
                  !.high = Max2(oc.high, ltp), !.low = Min2(oc.low, ltp),
                  !.close = ltp, !.volume = oc.volume + vol,
                  !.buy_vol = oc.buy_vol + buy,
                  !.sell_vol = oc.sell_vol + sell,
                  !.delta = upd_delta, !.cum_delta = upd_scd,
                  !.cum_volume =
                      IF IsSome(a.last_processed_cum_volume)
                      THEN a.last_processed_cum_volume
                      ELSE Some((IF IsSome(oc.cum_volume)
                                 THEN Val(oc.cum_volume) ELSE 0) + vol)]),
           !.fp = FpAdd(a.fp, bucket, buy, sell)]

\* what process_tick returns for the reconciled aggregator a
TickDone(a, msg, did, trade_key, vol) ==
    [vol |-> vol,
     key |-> Some(trade_key),
     did |-> did, agg |-> a, ret |-> Some([Val(a.candle) EXCEPT !.symbol = Some(msg.symbol)])]

\* (variant: a duplicate trade is recorded in the ring once more)
TickDeduped_recorded(a, msg, timeframe, bucket_value, host, time_bin, trade_key, vol, bs) ==
    IF InRing(a.ring, trade_key)
    THEN [vol |-> vol,
          key |-> Some(trade_key), did |-> "dup",
          agg |-> [a EXCEPT !.ring = RingAppend(a.ring, trade_key)],
          ret |-> None]
    ELSE IF IsNewCandle(a.candle, time_bin)
    THEN TickDone(
            reconcile_candle_and_footprint(
                OpenCandle([a EXCEPT !.ring = RingAppend(a.ring, trade_key)],
                           msg, timeframe, host, time_bin,
                           get_bucket_key(Val(msg.ltp), bucket_value), vol, bs[1], bs[2]),
                bucket_value),
            msg, "new", trade_key, vol)
    ELSE TickDone(
            reconcile_candle_and_footprint(
                UpdateCandle([a EXCEPT !.ring = RingAppend(a.ring, trade_key)],
                             msg, get_bucket_key(Val(msg.ltp), bucket_value),
                             vol, bs[1], bs[2]),
                bucket_value),
            msg, "update", trade_key, vol)

\* process_tick from the dedup test on, for the split bs of the volume
TickDeduped(a, msg, timeframe, bucket_value, host, time_bin, trade_key, vol, bs) ==
    IF InRing(a.ring, trade_key)
    THEN [vol |-> vol, key |-> Some(trade_key), did |-> "dup", agg |-> a, ret |-> None]
    ELSE IF IsNewCandle(a.candle, time_bin)
    THEN TickDone(
            reconcile_candle_and_footprint(
                OpenCandle([a EXCEPT !.ring = RingAppend(a.ring, trade_key)],
                           msg, timeframe, host, time_bin,
                           get_bucket_key(Val(msg.ltp), bucket_value), vol, bs[1], bs[2]),
                bucket_value),
            msg, "new", trade_key, vol)
    ELSE TickDone(
            reconcile_candle_and_footprint(
                UpdateCandle([a EXCEPT !.ring = RingAppend(a.ring, trade_key)],
                             msg, get_bucket_key(Val(msg.ltp), bucket_value),
                             vol, bs[1], bs[2]),
                bucket_value),
            msg, "update", trade_key, vol)

\* process_tick from the split on, for the extracted volume vol
TickSized(a, msg, timeframe, bucket_value, host, ts, time_bin, vol, bs) ==
    TickDeduped([a EXCEPT !.last_ltp = msg.ltp], msg, timeframe, bucket_value, host,
                time_bin, <<ts, Val(msg.ltp), vol, bs[1], bs[2], msg.trade_id>>, vol, bs)

\* process_tick from the volume test on, for the outcome dv of
\* _determine_trade_volume
TickTimed(a, msg, timeframe, bucket_value, host, ts, dv) ==
    IF dv.vol <= 0 \/ dv.vol > MaxTickVol
    THEN [vol |-> dv.vol, key |-> None, did |-> "novol",
          agg |-> [a EXCEPT !.last_processed_cum_volume = dv.lpcv,
                            !.last_cum_volume = dv.seen],
          ret |-> None]
    ELSE TickSized([a EXCEPT !.last_processed_cum_volume = dv.lpcv,
                             !.last_cum_volume = dv.seen],
                   msg, timeframe, bucket_value, host, ts,
                   calculate_aligned_time_bin(ts, IntervalOf(timeframe)),
                   dv.vol, TickSplit(msg, dv.vol))

\* CandleAggregator.process_tick.  Result: the aggregator afterwards, the
\* returned candle (None for null), and what the call did:
\* "invalid", "novol", "dup", "new" or "update", with the dedup key if one
\* was built.
process_tick(a, msg, timeframe, bucket_value, host) ==
    IF \/ msg.symbol = "" \/ IsNone(msg.ltp) \/ IsNone(msg.ts)
       \/ IsNone(normalize_timestamp_to_seconds(msg.ts))
    THEN [vol |-> 0, key |-> None, did |-> "invalid", agg |-> a, ret |-> None]
    ELSE TickTimed(a, msg, timeframe, bucket_value, host,
                   Val(normalize_timestamp_to_seconds(msg.ts)),
                   determine_trade_volume(a, msg))

\* ------------------------------------------------------- registry and API

\* How a Python number prints inside an f-string: a float always shows a
\* fractional part ("5.0"), an int and a numeric string do not ("5").
\* An argument is [v |-> value, type |-> "float" | "int" | "str"].
FormatArg(x) == [num |-> x.v, dot |-> (x.type = "float")]
\* float(bucket_size) and int(multiplier)
ToFloat(x) == [v |-> x.v, type |-> "float"]
ToInt(x) == [v |-> x.v, type |-> "int"]

\* key = f"{symbol}_{timeframe}_{bucket_size}_{multiplier}" in process_live_data,
\* built after bucket_size = float(bucket_size); multiplier = int(multiplier)
LiveKey(symbol, timeframe, bucket_size, multiplier) ==
    <<symbol, timeframe, FormatArg(ToFloat(bucket_size)), FormatArg(ToInt(multiplier))>>

\* the same f-string in clear_processor_state, built from the raw arguments
ClearKey(symbol, timeframe, bucket_size, multiplier) ==
    <<symbol, timeframe, FormatArg(bucket_size), FormatArg(multiplier)>>

\* a footprint list item is a level [priceLevel, buyVolume, sellVolume] or a
\* malformed item [bad |-> "str"] (a string or list: no .get) or
\* [bad |-> "int"] (a number or None: not iterable)
IsLevel(item) == "priceLevel" \in DOMAIN item

\* fp_map[round(p, 2)] = {...}: assignment keeps the position of a key
FpSet(fp, key, buy, sell) ==
    IF key \in FpKeys(fp)
    THEN [i \in 1..Len(fp) |->
            IF fp[i].k = key THEN [k |-> key, buy |-> buy, sell |-> sell] ELSE fp[i]]
    ELSE Append(fp, [k |-> key, buy |-> buy, sell |-> sell])

RECURSIVE FpFromList(_, _)
\* conversion loop of the seeding block: "ok" with the map built, "TypeError"
\* (caught around the loop: map discarded) or "AttributeError" (not caught)
FpFromList(items, acc) ==
    IF items = <<>> THEN [status |-> "ok", map |-> acc]
    ELSE LET item == Head(items)
         IN  IF IsLevel(item)
             THEN FpFromList(Tail(items),
                             FpSet(acc, item.priceLevel, item.buyVolume, item.sellVolume))
             ELSE IF item.bad = "int" THEN [status |-> "TypeError", map |-> <<>>]
             ELSE [status |-> "AttributeError", map |-> <<>>]

\* the dict `seeded` built from hist_last_candle (no symbol, no cum_volume yet)
SeededCandle(h) ==
    [delta |-> h.delta, low |-> h.low, high |-> h.high, buy_vol |-> h.buy_vol,
     sell_vol |-> h.sell_vol, volume |-> h.volume, close |-> h.close, open |-> h.open,
     cum_delta |-> h.cum_delta, footprint |-> h.footprint, time |-> h.time,
     symbol |-> None, cum_volume |-> None]

\* hist_cum is usable: an int >= 0
HistCumOk(h) == IsSome(h.cum_volume) /\ Val(h.cum_volume) >= 0

\* (variant: seeds only over a candle that is older than the hist candle)
NeedSeed_older(a, hist) ==
    /\ IsSome(hist)
    /\ Val(hist).time > 0
    /\ (IsNone(a.candle) \/ Val(a.candle).time < Val(hist).time)

\* need_seed = (cur_c is None) or (cur_c.time != h_time), for h_time > 0
NeedSeed(a, hist) ==
    /\ IsSome(hist)
    /\ Val(hist).time > 0
    /\ (IsNone(a.candle) \/ Val(a.candle).time # Val(hist).time)

\* seeding block of process_live_data.  raised is "" or the name of the
\* exception that leaves the block uncaught.
SeedAggregator(a, h, host) ==
    LET conv == FpFromList(h.footprint, <<>>)
        a1 == [a EXCEPT !.candle = Some(SeededCandle(h)),
                        !.session_cum_delta = h.cum_delta,
                        !.current_candle_time = Some(h.time),
                        !.last_trading_day = Some(get_market_open_timestamp(h.time, host))]
        a2 == [a1 EXCEPT !.fp = IF conv.map # <<>> THEN conv.map ELSE @,
                         !.last_ltp = Some(h.close)]
        a3 == IF HistCumOk(h)
              THEN [a2 EXCEPT !.last_processed_cum_volume = h.cum_volume,
                              !.last_cum_volume = h.cum_volume,
                              !.candle = Some([SeededCandle(h) EXCEPT
                                                 !.cum_volume = h.cum_volume]),
                              !.ring = <<>>]
              ELSE a2
    IN  IF conv.status = "AttributeError"
        THEN [agg |-> a1, raised |-> "AttributeError"]
        ELSE [agg |-> a3, raised |-> ""]

\* the guard comparing against the candle's own volume only
SeedCum_volume(c) == c.volume

\* seed_cum = c.get('cum_volume') or ... or c.get('volume'): the first truthy
\* value (the legacy keys are never present on a held candle)
SeedCum(c) ==
    IF IsSome(c.cum_volume) /\ Val(c.cum_volume) # 0 THEN Val(c.cum_volume)
    ELSE c.volume

\* the seeding-message guard: incoming cumulative equals the held candle's
SeedGuard(a, msg) ==
    /\ IsSome(a.candle)
    /\ IsSome(msg.vol_traded_today)
    /\ Val(msg.vol_traded_today) = SeedCum(Val(a.candle))

\* _candle_state[key] = agg
RegWith(reg, key, a) == [k \in DOMAIN reg \cup {key} |-> IF k = key THEN a ELSE reg[k]]

\* the aggregator under key, created if the key is not registered
RegSlot(reg, key) == IF key \in DOMAIN reg THEN reg[key] ELSE NewAggregator

\* process_live_data handing the tick to process_tick, whose result is r
LiveTicked(reg, key, seeds, r) ==
    [vol |-> r.vol, key |-> r.key, did |-> r.did, ret |-> r.ret,
     raised |-> "", reg |-> RegWith(reg, key, r.agg), seeded |-> seeds]

\* process_live_data after the seeding block, whose outcome is sd
LiveSeeded(reg, msg, timeframe, bucket_value, host, key, seeds, sd) ==
    IF sd.raised # ""
    THEN [vol |-> 0, key |-> None, did |-> "raised",
          ret |-> None, raised |-> sd.raised, reg |-> RegWith(reg, key, sd.agg), seeded |-> seeds]
    ELSE IF SeedGuard(sd.agg, msg)
    THEN [vol |-> 0,
          key |-> None,
          did |-> "guard",
          ret |-> Some([Val(sd.agg.candle) EXCEPT !.symbol = Some(msg.symbol)]),
          raised |-> "", reg |-> RegWith(reg, key, sd.agg), seeded |-> seeds]
    ELSE LiveTicked(reg, key, seeds,
                    process_tick(sd.agg, msg, timeframe, bucket_value, host))

\* process_live_data on the aggregator a0 of the key
LiveOnSlot(reg, msg, timeframe, bucket_value, hist, host, key, a0) ==
    LiveSeeded(reg, msg, timeframe, bucket_value, host, key, NeedSeed(a0, hist),
               IF NeedSeed(a0, hist) THEN SeedAggregator(a0, Val(hist), host)
               ELSE [agg |-> a0, raised |-> ""])

\* process_live_data.  reg is the registry _candle_state (a function from
\* keys to aggregators).  Result: the registry afterwards, the returned
\* candle (None for null), the exception that escaped ("" if none), whether
\* the call seeded, and what the call did ("reject", "raised", "guard", or the
\* outcome of process_tick).
process_live_data(reg, msg, timeframe, bucket_size, multiplier, hist, host) ==
    IF msg.symbol = "" \/ IsNone(msg.ltp) \/ Val(msg.ltp) = 0
    THEN [vol |-> 0, key |-> None, did |-> "reject", ret |-> None,
          raised |-> "", reg |-> reg, seeded |-> FALSE]
    ELSE LiveOnSlot(reg, msg, timeframe, ToFloat(bucket_size).v * ToInt(multiplier).v,
                    hist, host, LiveKey(msg.symbol, timeframe, bucket_size, multiplier),
                    RegSlot(reg, LiveKey(msg.symbol, timeframe, bucket_size, multiplier)))

\* clear_processor_state: the registry afterwards and the returned bool
clear_processor_state(reg, symbol, timeframe, bucket_size, multiplier) ==
    LET key == ClearKey(symbol, timeframe, bucket_size, multiplier)
    IN  IF key \in DOMAIN reg
        THEN [ret |-> TRUE, reg |-> [k \in DOMAIN reg \ {key} |-> reg[k]]]
        ELSE [ret |-> FALSE, reg |-> reg]

\* ------------------------------------------------------ process_hist_data
\*
\* The input table df is a sequence of fine bars
\*   [timestamp, symbol, open, high, low, close, volume, buy_vol, sell_vol];
\* cols tells whether df has the columns buy_vol and sell_vol (the two fields
\* are not read otherwise), by_symbol whether symbol_col names a column of df.
\* The rows are returned as a set: the last `unique` does not keep an order.

\* the key of `unique(subset=duplicate_cols)`
DupKey(b, by_symbol) == IF by_symbol THEN <<b.timestamp, b.symbol>> ELSE <<b.timestamp>>

\* unique(keep='first'): the indexes of the bars that are kept
KeptBars(df, by_symbol) ==
    { i \in 1..Len(df) :
        \A j \in 1..(i - 1) : DupKey(df[j], by_symbol) # DupKey(df[i], by_symbol) }

\* order of the symbols in `sort([symbol_col, 'timestamp'])` on the
\* categorical column: lexical, or by first appearance in df
SymRank(df, sym, lexical) ==
    IF lexical THEN (IF sym = "X" THEN 1 ELSE 2)
    ELSE CHOOSE i \in 1..Len(df) :
            df[i].symbol = sym /\ \A j \in 1..(i - 1) : df[j].symbol # sym

\* bar i comes before bar j after the sort
BarBefore(df, i, j, by_symbol, lexical) ==
    IF by_symbol /\ df[i].symbol # df[j].symbol
    THEN SymRank(df, df[i].symbol, lexical) < SymRank(df, df[j].symbol, lexical)
    ELSE df[i].timestamp < df[j].timestamp

\* the kept bars in sorted order
SortedBars(df, kept, by_symbol, lexical) ==
    [p \in 1..Cardinality(kept) |->
        df[CHOOSE i \in kept :
              Cardinality({j \in kept : BarBefore(df, j, i, by_symbol, lexical)}) = p - 1]]

\* buy_expr and sell_expr on row i of a frame: the volume goes to the side
\* of the bar's direction, for a flat bar to the side of the move from the
\* previous row's close (shift(1) is null on the first row)
HeurBuy(rows, i) ==
    IF rows[i].close > rows[i].open THEN rows[i].volume
    ELSE IF rows[i].close = rows[i].open /\ i > 1 /\ rows[i].close > rows[i - 1].close
    THEN rows[i].volume ELSE 0

HeurSell(rows, i) ==
    IF rows[i].close < rows[i].open THEN rows[i].volume
    ELSE IF rows[i].close = rows[i].open /\ i > 1 /\ rows[i].close < rows[i - 1].close
    THEN rows[i].volume ELSE 0

\* a frame with the columns time, buy_vol and sell_vol in place
WithColumns(rows, seconds, keep_cols) ==
    [i \in 1..Len(rows) |->
        [timestamp |-> rows[i].timestamp, low |-> rows[i].low,
         high |-> rows[i].high,
         buy_vol |-> IF keep_cols THEN rows[i].buy_vol ELSE HeurBuy(rows, i),
         sell_vol |-> IF keep_cols THEN rows[i].sell_vol ELSE HeurSell(rows, i),
         volume |-> rows[i].volume,
         close |-> rows[i].close, open |-> rows[i].open,
         time |-> (rows[i].timestamp \div seconds) * seconds,
         symbol |-> rows[i].symbol]]

\* the key of group_by(group_cols); the symbol of a row is None without symbol_col
GroupKey(b, by_symbol) == IF by_symbol THEN <<b.time, Some(b.symbol)>> ELSE <<b.time, None>>

GroupKeys(rows, by_symbol) == {GroupKey(rows[i], by_symbol) : i \in 1..Len(rows)}

\* the positions of the rows of group g
Members(rows, g, by_symbol) == {i \in 1..Len(rows) : GroupKey(rows[i], by_symbol) = g}

SetMin(S) == CHOOSE x \in S : \A y \in S : x <= y
SetMax(S) == CHOOSE x \in S : \A y \in S : x >= y

\* sum of f[i] over the positions in S
RECURSIVE SumOver(_, _)
SumOver(f, S) ==
    IF S = {} THEN 0 ELSE f[SetMin(S)] + SumOver(f, S \ {SetMin(S)})

\* agg: first open, max high, min low, last close and the sums, then delta
AggRow(rows, g, m) ==
    [delta |-> SumOver([i \in 1..Len(rows) |-> rows[i].buy_vol], m)
               - SumOver([i \in 1..Len(rows) |-> rows[i].sell_vol], m),
     low |-> SetMin({rows[i].low : i \in m}),
     high |-> SetMax({rows[i].high : i \in m}),
     buy_vol |-> SumOver([i \in 1..Len(rows) |-> rows[i].buy_vol], m),
     sell_vol |-> SumOver([i \in 1..Len(rows) |-> rows[i].sell_vol], m),
     volume |-> SumOver([i \in 1..Len(rows) |-> rows[i].volume], m),
     close |-> rows[SetMax(m)].close,
     open |-> rows[SetMin(m)].open,
     time |-> g[1],
     symbol |-> g[2]]

Grouped(rows, by_symbol) ==
    { AggRow(rows, g, Members(rows, g, by_symbol)) : g \in GroupKeys(rows, by_symbol) }

WithSplit(r, buy, sell) ==
    [r EXCEPT !.buy_vol = buy, !.sell_vol = sell, !.delta = buy - sell]

\* too much allocated: the volume is shared out in proportion
OverAllocated(r, alloc) == WithSplit(r, Max2(0, alloc[1]), Max2(0, alloc[2]))

\* too little allocated (diff > 0)
UnderAllocated(r, diff) ==
    IF r.buy_vol = 0 /\ r.sell_vol = 0
    THEN IF r.close > r.open THEN WithSplit(r, diff, 0)
         ELSE IF r.close < r.open THEN WithSplit(r, 0, diff)
         ELSE WithSplit(r, diff \div 2, diff - (diff \div 2))
    ELSE IF r.buy_vol + r.sell_vol > 0
    THEN WithSplit(r, r.buy_vol + RoundShare(diff, r.buy_vol, r.buy_vol + r.sell_vol),
                   r.sell_vol + (diff - RoundShare(diff, r.buy_vol,
                                                   r.buy_vol + r.sell_vol)))
    ELSE WithSplit(r, r.buy_vol + (diff \div 2), r.sell_vol + (diff - (diff \div 2)))

\* (variant: the rows are left as aggregated)
ReconcileRow_skipped(r) == r

\* "Reconcile buy/sell totals" for one row
ReconcileRow(r) ==
    IF r.volume - (r.buy_vol + r.sell_vol) = 0 THEN r
    ELSE IF r.volume - (r.buy_vol + r.sell_vol) < 0
    THEN IF r.buy_vol + r.sell_vol > 0
         THEN OverAllocated(r, proportional_alloc(r.volume, <<r.buy_vol, r.sell_vol>>))
         ELSE WithSplit(r, 0, 0)
    ELSE UnderAllocated(r, r.volume - (r.buy_vol + r.sell_vol))

\* the rows of one symbol, sorted by time
RowsOf(rows, sym) ==
    [p \in 1..Cardinality({r \in rows : r.symbol = sym}) |->
        CHOOSE r \in rows :
            /\ r.symbol = sym
            /\ Cardinality({q \in rows : q.symbol = sym /\ q.time < r.time}) = p - 1]

\* (variant: the counters run on across trading days)
CumRestarts_never(day, trading_day) == FALSE

\* the counters restart at a row whose trading day is not the current one
CumRestarts(day, trading_day) == IsNone(day) \/ Val(day) # trading_day

\* one row of the cumulative loop: acc = [cum_delta, cum_vol, day, out]
CumStep(acc, r, trading_day) ==
    [cum_delta |-> (IF CumRestarts(acc.day, trading_day) THEN 0 ELSE acc.cum_delta) + r.delta,
     day |-> Some(trading_day),
     cum_vol |-> (IF CumRestarts(acc.day, trading_day) THEN 0 ELSE acc.cum_vol) + r.volume,
     out |-> acc.out \cup
        {[vol_traded_today |-> (IF CumRestarts(acc.day, trading_day) THEN 0
                                ELSE acc.cum_vol) + r.volume,
          last_cum_volume |-> (IF CumRestarts(acc.day, trading_day) THEN 0
                               ELSE acc.cum_vol) + r.volume,
          delta |-> r.delta, low |-> r.low,
          high |-> r.high, buy_vol |-> r.buy_vol, sell_vol |-> r.sell_vol,
          volume |-> r.volume, close |-> r.close, open |-> r.open,
          cum_delta |-> (IF CumRestarts(acc.day, trading_day) THEN 0 ELSE acc.cum_delta)
                        + r.delta,
          time |-> r.time,
          symbol |-> r.symbol,
          cum_volume |-> (IF CumRestarts(acc.day, trading_day) THEN 0 ELSE acc.cum_vol)
                         + r.volume]}]

RECURSIVE CumLoop(_, _, _, _)
CumLoop(rows, i, acc, host) ==
    IF i > Len(rows) THEN acc.out
    ELSE CumLoop(rows, i + 1,
                 CumStep(acc, rows[i], get_market_open_timestamp(rows[i].time, host)),
                 host)

\* cumulative delta and volume per symbol per trading day
WithCumulative(rows, host) ==
    UNION { CumLoop(RowsOf(rows, sym), 1,
                    [cum_delta |-> 0, day |-> None, cum_vol |-> 0, out |-> {}], host) :
            sym \in {r.symbol : r \in rows} }

\* the frame df_exp of the footprint: every bar of df, in the order of df
\* (buy_vol and sell_vol are df's own columns when it has them); the bucket
\* is (close / bucket).floor() * bucket, rounded to 2 places, in doubles
Expanded(df, seconds, cols, bucket_value) ==
    [i \in 1..Len(df) |->
        [buy_vol |-> IF cols THEN df[i].buy_vol ELSE HeurBuy(df, i),
         sell_vol |-> IF cols THEN df[i].sell_vol ELSE HeurSell(df, i),
         time |-> (df[i].timestamp \div seconds) * seconds,
         symbol |-> df[i].symbol,
         price_bucket |-> BucketPrice(FloorDiv(df[i].close, bucket_value), bucket_value)]]

\* the bars of df_exp that belong to the row r
RowBars(exp, r) ==
    { i \in 1..Len(exp) :
        exp[i].time = r.time /\ (IsSome(r.symbol) => exp[i].symbol = Val(r.symbol)) }

\* the footprint map of the row from the bars m of df_exp, by ascending price
HistFpMap(exp, m) ==
    [p \in 1..Cardinality({exp[i].price_bucket : i \in m}) |->
        LET k == CHOOSE k \in {exp[i].price_bucket : i \in m} :
                    Cardinality({exp[i].price_bucket : i \in m} \cap 0..(k - 1)) = p - 1
        IN  [k |-> k,
             buy |-> SumOver([i \in 1..Len(exp) |-> exp[i].buy_vol],
                             {i \in m : exp[i].price_bucket = k}),
             sell |-> SumOver([i \in 1..Len(exp) |-> exp[i].sell_vol],
                              {i \in m : exp[i].price_bucket = k})]]

\* r['footprint'] = build_footprint_from_map(r, fp_map, bucket_value); the key
\* is absent (None) when the bucket is not positive
WithHistFootprint(rows, exp, bucket_value) ==
    { [vol_traded_today |-> r.vol_traded_today,
       last_cum_volume |-> r.last_cum_volume, delta |-> r.delta, low |-> r.low,
       high |-> r.high, buy_vol |-> r.buy_vol, sell_vol |-> r.sell_vol,
       volume |-> r.volume, close |-> r.close, open |-> r.open,
       cum_delta |-> r.cum_delta,
       footprint |-> IF bucket_value <= 0 THEN None
                     ELSE Some(build_footprint_from_map(
                                   r, HistFpMap(exp, RowBars(exp, r)), bucket_value)),
       time |-> r.time, symbol |-> r.symbol,
       cum_volume |-> r.cum_volume] :
      r \in rows }

\* process_hist_data(df, timeframe, symbol_col, bucket_size, multiplier,
\* preserve_live_data) with footprint = True and data_frame = False
process_hist_data(df, cols, timeframe, by_symbol, lexical, bucket_value, preserve, host) ==
    WithHistFootprint(
        WithCumulative(
            { ReconcileRow(r) :
                r \in Grouped(WithColumns(SortedBars(df, KeptBars(df, by_symbol),
                                                     by_symbol, lexical),
                                          IntervalOf(timeframe), cols /\ preserve),
                              by_symbol) },
            host),
        Expanded(df, IntervalOf(timeframe), cols, bucket_value),
        bucket_value)

\* ------------------------------------------------------------------ state

VARIABLES
    reg,    \* _candle_state: registry key -> aggregator
    host,   \* UTC offset of the host's local zone (datetime.fromtimestamp)
    last,   \* the last API call: its arguments and what it returned
    gh,     \* per registered key: bookkeeping used to state the properties
    steps,  \* number of API calls made
    thr,    \* calls in progress on separate threads (Idle when there are none)
    sock    \* socket_events: the module's globals and the feed threads started

vars == <<reg, host, last, gh, steps, thr, sock>>

\* no call is in progress: every call below runs from start to end in one step
Idle == [on |-> FALSE]

\* socket_events at import: live_feeds and subscriber_rooms are empty dicts
\* (subscriber_rooms in insertion order), subscribed_symbols an empty set,
\* global_feed None; feeds lists the feed threads started so far, each
\* "started" (global_feed not yet assigned), "open" or "closed"
NoSock ==
    [live_feeds |-> <<>>, subscriber_rooms |-> <<>>, subscribed_symbols |-> {},
     global_feed |-> None, feeds |-> <<>>]

MaxSteps == 3

\* the host runs in UTC or in the session zone
HostOffsets == {0, IST_OFFSET}

NoCall ==
    [msg |-> None, vol |-> 0, key |-> None, did |-> "", ret |-> None,
     hist |-> None, raised |-> "", seeded |-> FALSE, op |-> "init",
     args |-> None, cleared |-> FALSE, regkey |-> None]

\* by: the arguments of the call that created the slot; recent: the keys of
\* the trades accepted last, at most RingCap of them
NewGhost(args) ==
    [base |-> None, acc |-> 0, closed |-> <<>>, ordered |-> TRUE, maxTs |-> 0,
     by |-> args, recent |-> <<>>]

\* the last RingCap elements of s
LastKeys(s) == IF Len(s) > RingCap THEN SubSeq(s, Len(s) - RingCap + 1, Len(s)) ELSE s

TradingDay(time) == get_market_open_timestamp(time, host)

\* bookkeeping after a process_live_data call on one key: g before, a0 the
\* aggregator before the call, r the result of the call
GhostAfter(g, a0, r, msg, hist) ==
    LET h == Val(hist)
        g1 == IF r.seeded
              THEN [g EXCEPT !.acc = h.volume, !.closed = <<>>,
                             !.base = Some([day |-> TradingDay(h.time),
                                            off |-> h.cum_delta - h.delta]),
                             !.maxTs = Max2(g.maxTs, h.time)]
              ELSE g
        pre == IF r.seeded THEN Some(SeededCandle(h)) ELSE a0.candle
        timed == r.did \in {"novol", "dup", "new", "update"}
        g2 == IF timed
              THEN [g1 EXCEPT !.ordered = g1.ordered /\ Val(msg.ts) >= g1.maxTs,
                              !.maxTs = Max2(g1.maxTs, Val(msg.ts))]
              ELSE g1
    IN  IF r.did = "new"
        THEN [g2 EXCEPT !.acc = r.vol,
                        !.recent = LastKeys(Append(g2.recent, Val(r.key))),
                        !.closed = IF IsSome(pre)
                                   THEN Append(g2.closed,
                                               [delta |-> Val(pre).buy_vol - Val(pre).sell_vol,
                                                day |-> TradingDay(Val(pre).time)])
                                   ELSE g2.closed]
        ELSE IF r.did = "update"
        THEN [g2 EXCEPT !.acc = g2.acc + r.vol,
                        !.recent = LastKeys(Append(g2.recent, Val(r.key)))]
        ELSE g2

\* the state after a process_live_data call on key whose result is r
Delivered(args, msg, hist, key, r) ==
    /\ reg' = r.reg
    /\ gh' = [k \in DOMAIN r.reg |->
                IF k = key
                THEN GhostAfter(IF key \in DOMAIN gh THEN gh[key] ELSE NewGhost(args),
                                RegSlot(reg, key), r, msg, hist)
                ELSE gh[k]]
    /\ last' = [msg |-> Some(msg), vol |-> r.vol, key |-> r.key,
                did |-> r.did, ret |-> r.ret, hist |-> hist,
                raised |-> r.raised, seeded |-> r.seeded, op |-> "live",
                args |-> Some(args), cleared |-> FALSE,
                regkey |-> IF r.did = "reject" THEN None ELSE Some(key)]

\* one call process_live_data(msg, timeframe, bucket_size, multiplier, hist),
\* among at most `bound` calls
DeliverWithin(bound, args, msg, hist) ==
    /\ steps < bound
    /\ Delivered(args, msg, hist, LiveKey(msg.symbol, args.tf, args.bs, args.mult),
                 process_live_data(reg, msg, args.tf, args.bs, args.mult, hist, host))
    /\ steps' = steps + 1
    /\ UNCHANGED <<host, thr, sock>>

Deliver(args, msg, hist) == DeliverWithin(MaxSteps, args, msg, hist)

\* one call clear_processor_state(symbol, timeframe, bucket_size, multiplier)
ClearState(symbol, args) ==
    /\ steps < MaxSteps
    /\ LET r == clear_processor_state(reg, symbol, args.tf, args.bs, args.mult)
       IN  /\ reg' = r.reg
           /\ gh' = [k \in DOMAIN r.reg |-> gh[k]]
           /\ last' = [NoCall EXCEPT !.op = "clear", !.args = Some(args),
                                     !.cleared = r.ret]
    /\ steps' = steps + 1
    /\ UNCHANGED <<host, thr, sock>>

Init ==
    /\ reg = <<>>
    /\ gh = <<>>
    /\ host \in HostOffsets
    /\ last = NoCall
    /\ steps = 0
    /\ thr = Idle
    /\ sock = NoSock

\* ----------------------------------------------------------------- inputs

\* a tick record: symbol X, a price, a feed time, last_traded_qty,
\* vol_traded_today and the price change ch; no quotes, no trade_id
Tick(ts, ltp, qty, cum, ch) ==
    [ts |-> ts, tot_buy_qty |-> None, tot_sell_qty |-> None, bid_price |-> None,
     ask_price |-> None, ltp |-> Some(ltp), ch |-> ch,
     last_traded_qty |-> qty, vol_traded_today |-> cum, open_price |-> None,
     symbol |-> "X", trade_id |-> None]

\* 2024-08-14 09:15:00 IST, the session open of the first day of the model
Day0Open == MarketOpenOfDate(19949)
\* feed times: first bin, second 5m bin, last bin of the day, next day's open
TA == Some(Day0Open)
TC == Some(Day0Open + 310)
TD == Some(Day0Open + 86400)

Args5m == [bs |-> [v |-> 500, type |-> "float"], tf |-> "5m",
           mult |-> [v |-> 1, type |-> "int"]]

\* ticks of the live feed: quantity-only ticks and cumulative-volume ticks
FeedTicks ==
    { Tick(TA, 10000, Some(10), None, None),
      Tick(TA, 10500, Some(7), None, Some(1)),
      Tick(TC, 10500, Some(20), None, Some(1)),
      Tick(TC, 10000, Some(4), None, Some(0 - 1)),
      Tick(TD, 10000, Some(3), None, Some(1)),
      Tick(TA, 10000, Some(10), Some(100), None),
      Tick(TA, 10000, Some(3), Some(110), None),
      Tick(TC, 10500, None, Some(130), None) }

Level(p, b, s) == [buyVolume |-> b, sellVolume |-> s, priceLevel |-> p]

Hist(time, low, volume, buy, sell, cum_delta, cum_volume, footprint) ==
    [delta |-> buy - sell, low |-> low, high |-> 10500, buy_vol |-> buy, sell_vol |-> sell,
     volume |-> volume, close |-> 10500, open |-> 10000, cum_delta |-> cum_delta,
     footprint |-> footprint, time |-> time, cum_volume |-> cum_volume]

\* last historical candles handed to process_live_data: a well-formed one, one
\* without trades and without footprint, the same with a cumulative volume of
\* 0, one whose buy/sell split does not add up to its volume, and two with a
\* malformed footprint item
HistCandles ==
    { Hist(Day0Open + 300, 10000, 30, 20, 10, 50, Some(130),
           <<Level(10500, 15, 5), Level(10000, 5, 5)>>),
      Hist(Day0Open + 300, 10000, 0, 0, 0, 7, None, <<>>),
      Hist(Day0Open + 300, 10000, 0, 0, 0, 7, Some(0), <<>>),
      Hist(Day0Open, 10000, 10, 3, 3, 4, Some(110), <<Level(10000, 3, 3)>>),
      Hist(Day0Open + 300, 10500, 30, 20, 10, 50, Some(130), <<[bad |-> "int"]>>),
      Hist(Day0Open + 300, 10500, 30, 20, 10, 50, Some(130), <<[bad |-> "str"]>>) }

\* the priming tick of start_live_feed: ltp = close, vol_traded_today = the
\* candle's volume, last_traded_qty = 0, no feed time
PrimingTick(h) == Tick(None, h.close, Some(0), Some(h.volume), None)

\* a tick that reports the cumulative volume of the seeded candle and carries
\* no last_traded_qty
EchoTick(h) == Tick(Some(h.time + 10), h.close, None, h.cum_volume, None)

SeedTicks(h) ==
    {PrimingTick(h)} \cup (IF IsSome(h.cum_volume) THEN {EchoTick(h)} ELSE {})

\* a feed tick arrives (the dispatcher passes no hist_last_candle)
FeedTick == \E m \in FeedTicks : Deliver(Args5m, m, None)

\* a subscription seeds the aggregator from the last historical candle
Subscribe == \E h \in HistCandles : \E m \in SeedTicks(h) : Deliver(Args5m, m, Some(h))

\* the chart is switched: the processor state of the key is cleared
ClearKey5m == ClearState("X", Args5m)

Next == FeedTick \/ Subscribe \/ ClearKey5m

Spec == Init /\ [][Next]_vars

\* ------------------------------------------------ a long feed (dedup ring)

MaxRingSteps == 203

\* the n-th trade of a feed that numbers its trades: one lot every two
\* seconds, so the feed crosses into the next 5m candle after 150 trades
Trade(n) ==
    [Tick(Some(Day0Open + 2 * n), 10000, Some(1), None, None)
        EXCEPT !.trade_id = Some(n)]

\* the feed delivers a trade not seen before
NewTrade == DeliverWithin(MaxRingSteps, Args5m, Trade(steps + 1), None)

\* after the second call, and once the ring is about to fill up, the feed
\* re-delivers the first trade or the most recent one
ReplayTrade ==
    /\ steps = 2 \/ steps >= RingCap - 1
    /\ \E n \in {1, steps} : DeliverWithin(MaxRingSteps, Args5m, Trade(n), None)

\* the last historical candle a subscription finds: the one of the second bin
\* of the day or the one of the first, both with a cumulative volume
RingHists == {h \in HistCandles : HistCumOk(h) /\ \A i \in 1..Len(h.footprint) : IsLevel(h.footprint[i])}

\* after the first trade, and once the ring is about to fill up, another
\* client subscribes to the key: start_live_feed primes the aggregator again
Resubscribe ==
    /\ steps = 1 \/ steps >= RingCap - 1
    /\ \E h \in RingHists : DeliverWithin(MaxRingSteps, Args5m, PrimingTick(h), Some(h))

NextRing == NewTrade \/ ReplayTrade \/ Resubscribe

SpecRing == Init /\ [][NextRing]_vars

\* ------------------------------------------- several keys (registry, clear)

\* the same bucket size and multiplier passed as float or int, two timeframes
RegArgs ==
    { [bs |-> [v |-> 500, type |-> bt], tf |-> tf, mult |-> [v |-> 1, type |-> "int"]] :
        tf \in {"1m", "5m"}, bt \in {"float", "int"} }

RegTicks ==
    { Tick(TA, 10000, Some(10), Some(100), None),
      Tick(TC, 10500, Some(20), Some(120), Some(1)) }

LiveCall == \E a \in RegArgs : \E m \in RegTicks : Deliver(a, m, None)

ClearCall == \E a \in RegArgs : ClearState("X", a)

NextReg == LiveCall \/ ClearCall

SpecReg == Init /\ [][NextReg]_vars

\* ------------------------------------------------- a feed with quote data

MaxBookSteps == 3

\* a tick with best bid/ask and the total resting buy and sell quantities
BookTick(ts, ltp, qty, bid, ask, tbq, tsq) ==
    [Tick(ts, ltp, Some(qty), None, None) EXCEPT
        !.bid_price = bid, !.ask_price = ask, !.tot_buy_qty = tbq, !.tot_sell_qty = tsq]

\* trades inside the spread, at the ask, at the bid and without quotes, with
\* book quantities that are positive, zero or negative; the last tick reports
\* a negative cumulative volume
BookTicks ==
    { BookTick(TA, 10000, 10, Some(9990), Some(10010), Some(0 - 5), Some(10)),
      BookTick(TA, 10000, 7, None, None, Some(10), Some(0 - 5)),
      BookTick(TA, 10500, 9, Some(10490), Some(10510), Some(0), Some(0)),
      BookTick(TA, 10000, 6, Some(10010), Some(9990), Some(3), Some(1)),
      BookTick(TC, 10500, 8, Some(10490), Some(10500), Some(4), Some(4)),
      BookTick(TC, 10000, 5, Some(10000), Some(10010), Some(0 - 2), Some(0 - 2)),
      BookTick(TC, 10500, 4, None, None, Some(0 - 1), Some(3)),
      [BookTick(TA, 10000, 3, None, None, Some(0 - 4), Some(6)) EXCEPT
          !.vol_traded_today = Some(0 - 50)] }

QuoteTick == \E m \in BookTicks : DeliverWithin(MaxBookSteps, Args5m, m, None)

\* a client subscribes in between
QuoteSubscribe ==
    \E h \in RingHists : DeliverWithin(MaxBookSteps, Args5m, PrimingTick(h), Some(h))

NextBook == QuoteTick \/ QuoteSubscribe

SpecBook == Init /\ [][NextBook]_vars

\* ------------------------------------- a feed on buckets of 5.00 (S1, S2)

MaxScenarioSteps == 3

\* bucket_size 0.05 and multiplier 100: buckets of 5.00
ArgsS == [bs |-> [v |-> 5, type |-> "float"], tf |-> "5m",
          mult |-> [v |-> 100, type |-> "int"]]

\* S1: the first trade of the bin, 10 at 100.00 with ch = 0
S1Tick == Tick(TA, 10000, Some(10), None, Some(0))

\* S2: a trade of 8 at the ask, 101.00, one minute later in the same bin
S2Tick == BookTick(Some(Day0Open + 60), 10100, 8, Some(10095), Some(10100), None, None)

\* S1 and S2, S1 with the session's open price, and trades at the bid, inside
\* the spread, in the next bucket and in the next bin
ScenarioTicks ==
    { S1Tick,
      [S1Tick EXCEPT !.open_price = Some(9900)],
      S2Tick,
      BookTick(Some(Day0Open + 90), 10095, 8, Some(10095), Some(10100), None, None),
      BookTick(Some(Day0Open + 120), 10098, 6, Some(10095), Some(10100), Some(1), Some(2)),
      Tick(Some(Day0Open + 150), 10500, Some(4), None, Some(1)),
      Tick(TC, 10100, Some(2), None, None) }

ScenarioTick == \E m \in ScenarioTicks : DeliverWithin(MaxScenarioSteps, ArgsS, m, None)

SpecScenario == Init /\ [][ScenarioTick]_vars

\* ------------------------------------------- the footprint builder alone

\* a function under study applied to one input drawn at the start: `last`
\* holds the input, then the input and the result
PureInput(x) == [out |-> None, op |-> "input", in |-> x]
PureResult(name, x, y) == [out |-> Some(y), op |-> name, in |-> x]

InitPure(inputs) ==
    /\ reg = <<>>
    /\ gh = <<>>
    /\ host \in HostOffsets
    /\ steps = 0
    /\ thr = Idle
    /\ sock = NoSock
    /\ \E x \in inputs : last = PureInput(x)

LadderCandle(low, high, buy, sell) ==
    [low |-> low, high |-> high, buy_vol |-> buy, sell_vol |-> sell]

FpItem(k, buy, sell) == [k |-> k, buy |-> buy, sell |-> sell]

\* footprint maps: empty, one or two buckets inside the candle's range, a
\* bucket far below it, buckets of a finer grid
LadderMaps ==
    { <<>>,
      <<FpItem(10000, 3, 2)>>,
      <<FpItem(10100, 1, 0), FpItem(10000, 2, 2)>>,
      <<FpItem(9000, 4, 4)>>,
      <<FpItem(10050, 2, 1), FpItem(10000, 1, 1), FpItem(10025, 0, 1)>> }

\* candles of up to four levels on grids of 0.50 and 1.00, and one candle
\* of more than 5000 levels on a grid of 0.01
LadderInputs ==
    { [bucket_value |-> bv, candle |-> LadderCandle(l, l + s, b, sl), fp_map |-> m] :
        l \in {9990, 10000, 10049}, s \in {0, 10, 120}, b \in {0, 5}, sl \in {0, 3},
        m \in LadderMaps, bv \in {50, 100} }
    \cup { [bucket_value |-> 1,
            candle |-> LadderCandle(10000, 15003, 1, 1),
            fp_map |-> <<FpItem(10000, 1, 1), FpItem(12000, 1, 1)>>] }

BuildLadder ==
    /\ last.op = "input"
    /\ last' = PureResult("build_footprint_from_map", last.in,
                          build_footprint_from_map(last.in.candle, last.in.fp_map,
                                                   last.in.bucket_value))
    /\ UNCHANGED <<reg, host, gh, steps, thr, sock>>

InitLadder == InitPure(LadderInputs)

SpecLadder == InitLadder /\ [][BuildLadder]_vars

\* ---------------------------------------------------- the allocator alone

MaxAllocTotal == 10
MaxWeight == 3
MaxWeights == 3

\* totals from -1 and lists of up to MaxWeights weights
AllocInputs ==
    { [total |-> t, weights |-> w] :
        t \in (0 - 1)..MaxAllocTotal,
        w \in UNION { [1..n -> 0..MaxWeight] : n \in 0..MaxWeights } }

Allocate ==
    /\ last.op = "input"
    /\ last' = PureResult("proportional_alloc", last.in,
                          proportional_alloc(last.in.total, last.in.weights))
    /\ UNCHANGED <<reg, host, gh, steps, thr, sock>>

InitAlloc == InitPure(AllocInputs)

SpecAlloc == InitAlloc /\ [][Allocate]_vars

\* --------------------------------------------------- the classifier alone

\* a trade at 100.00 with every combination of absent or present bid, ask,
\* resting quantities (negative, zero, positive) and price change
ClassifierInputs ==
    { [msg |-> [BookTick(TA, 10000, v, bid, ask, tbq, tsq) EXCEPT !.ch = ch], vol |-> v] :
        v \in {1, 7, 10},
        bid \in {None, Some(9990), Some(10000), Some(10010)},
        ask \in {None, Some(9990), Some(10000), Some(10010)},
        tbq \in {None, Some(0 - 5), Some(0), Some(10)},
        tsq \in {None, Some(0 - 5), Some(0), Some(10)},
        ch \in {None, Some(0 - 1), Some(0), Some(1)} }

Classify ==
    /\ last.op = "input"
    /\ last' = PureResult("calculate_aggressor_volumes", last.in,
                          calculate_aggressor_volumes(last.in.msg, last.in.vol))
    /\ UNCHANGED <<reg, host, gh, steps, thr, sock>>

InitClassifier == InitPure(ClassifierInputs)

SpecClassifier == InitClassifier /\ [][Classify]_vars

\* ---------------------------------------------- the volume extractor alone

MaxExtractSteps == 3

\* cumulative volumes: absent, negative, 0, two close values, and two values
\* that exceed 100 by the plausibility cap and by one more
ExtractCums ==
    {None, Some(0 - 1), Some(0), Some(100), Some(105),
     Some(100 + MaxCumJump), Some(101 + MaxCumJump)}

\* last_traded_qty: absent, negative, zero, positive
ExtractQtys == {None, Some(0 - 2), Some(0), Some(3)}

ExtractTicks == { Tick(TA, 10000, q, c, None) : q \in ExtractQtys, c \in ExtractCums }

\* the aggregator after _determine_trade_volume returned r
Extracted(a, r) ==
    [a EXCEPT !.last_processed_cum_volume = r.lpcv, !.last_cum_volume = r.seen]

\* `last` after one call: the aggregator, the tick, the baseline before the
\* call and the returned quantity
ExtractDone(a, msg, r) ==
    [agg |-> Extracted(a, r), out |-> Some(r.vol), op |-> "determine_trade_volume",
     in |-> msg, before |-> a.last_processed_cum_volume]

Extract ==
    /\ steps < MaxExtractSteps
    /\ \E m \in ExtractTicks :
          last' = ExtractDone(last.agg, m, determine_trade_volume(last.agg, m))
    /\ steps' = steps + 1
    /\ UNCHANGED <<reg, host, gh, thr, sock>>

InitExtractor ==
    /\ reg = <<>>
    /\ gh = <<>>
    /\ host \in HostOffsets
    /\ steps = 0
    /\ thr = Idle
    /\ sock = NoSock
    /\ last = [agg |-> NewAggregator, out |-> None, op |-> "input", in |-> None,
               before |-> None]

SpecExtractor == InitExtractor /\ [][Extract]_vars

\* ------------------------------------------------ process_hist_data alone

MaxBars == 3

Bar(ts, sym, o, h, l, c, v, b, s) ==
    [timestamp |-> ts, low |-> l, high |-> h, buy_vol |-> b, sell_vol |-> s, volume |-> v,
     close |-> c, open |-> o, symbol |-> sym]

\* fine bars of 5 seconds: a rising and a falling bar of the first minute, a
\* flat bar with the falling bar's timestamp, a flat bar of the second
\* minute, a bar of the next day and a bar of a second symbol.  The buy/sell
\* columns add up to the volume, exceed it, or fall short of it.
FineBars ==
    { Bar(Day0Open, "X", 10000, 10050, 10000, 10050, 10, 6, 4),
      Bar(Day0Open + 5, "X", 10050, 10050, 9950, 10000, 7, 5, 5),
      Bar(Day0Open + 5, "X", 10100, 10100, 10100, 10100, 4, 0, 0),
      Bar(Day0Open + 65, "X", 10000, 10000, 10000, 10000, 3, 1, 0),
      Bar(Day0Open + 86400 + 300, "X", 10000, 10000, 9900, 9900, 5, 2, 3),
      Bar(Day0Open, "Y", 10050, 10050, 10050, 10050, 8, 8, 0) }

\* without and with buy/sell columns, these kept or overwritten
HistColumns ==
    { [cols |-> FALSE, preserve |-> TRUE], [cols |-> TRUE, preserve |-> TRUE],
      [cols |-> TRUE, preserve |-> FALSE] }

\* without symbol_col, and with it under either order of the symbols
HistSymbols ==
    { [by_symbol |-> FALSE, lexical |-> FALSE], [by_symbol |-> TRUE, lexical |-> FALSE],
      [by_symbol |-> TRUE, lexical |-> TRUE] }

HistInputs ==
    { [timeframe |-> tf, bucket_value |-> 50, by_symbol |-> y.by_symbol, df |-> df,
       lexical |-> y.lexical, cols |-> c.cols, preserve |-> c.preserve] :
        df \in UNION { [1..n -> FineBars] : n \in 0..MaxBars },
        c \in HistColumns, y \in HistSymbols, tf \in {"1m", "5m"} }

ProcessHist ==
    /\ last.op = "input"
    /\ last' = PureResult("process_hist_data", last.in,
                          process_hist_data(last.in.df, last.in.cols, last.in.timeframe,
                                            last.in.by_symbol, last.in.lexical,
                                            last.in.bucket_value, last.in.preserve, host))
    /\ UNCHANGED <<reg, host, gh, steps, thr, sock>>

InitHist == InitPure(HistInputs)

SpecHist == InitHist /\ [][ProcessHist]_vars

\* ------------------------------------ one session, live and historical

MaxSession == 3

\* trades of a session, all between 09:15 and 15:30 IST: at the ask, at the
\* bid, without quotes; in the first minute, the second minute, the second
\* 5m bin, the second 15m bin and on the next day
SessionTicks ==
    { BookTick(Some(Day0Open), 10000, 10, Some(9990), Some(10000), None, None),
      BookTick(Some(Day0Open + 70), 10050, 7, Some(10050), Some(10060), None, None),
      Tick(Some(Day0Open + 310), 9950, Some(4), None, Some(0)),
      BookTick(Some(Day0Open + 1000), 10100, 3, Some(10090), Some(10100), None, None),
      BookTick(Some(Day0Open + 86400 + 20), 10000, 5, Some(10000), Some(10010), None, None),
      Tick(Some(Day0Open + 86400 + 400), 10050, Some(6), None, Some(1)) }

\* the trades of S in the order of their feed times
SessionOf(S) ==
    [p \in 1..Cardinality(S) |->
        CHOOSE m \in S : Cardinality({x \in S : Val(x.ts) < Val(m.ts)}) = p - 1]

Sessions == { SessionOf(S) : S \in {T \in SUBSET SessionTicks : Cardinality(T) <= MaxSession} }

ArgsT(tf) == [Args5m EXCEPT !.tf = tf]

\* the fine bar of one trade, with the buy/sell split the live path gives it
TradeBar(m, split) ==
    Bar(Val(m.ts), m.symbol, Val(m.ltp), Val(m.ltp), Val(m.ltp), Val(m.ltp),
        Val(m.last_traded_qty), split[1], split[2])

SessionBars(ticks) ==
    [i \in 1..Len(ticks) |->
        TradeBar(ticks[i], calculate_aggressor_volumes(ticks[i], Val(ticks[i].last_traded_qty)))]

\* the candles of the live path so far (st.out: the latest candle returned
\* for each candle time) after a call that returned r
LiveCollected(st, r) ==
    [reg |-> r.reg,
     out |-> IF IsSome(r.ret)
             THEN {c \in st.out : c.time # Val(r.ret).time} \cup {Val(r.ret)}
             ELSE st.out]

\* the feed delivers the trades from the i-th on to process_live_data
RECURSIVE LiveReplay(_, _, _, _, _)
LiveReplay(ticks, i, st, args, h) ==
    IF i > Len(ticks) THEN st.out
    ELSE LiveReplay(ticks, i + 1,
                    LiveCollected(st, process_live_data(st.reg, ticks[i], args.tf, args.bs,
                                                        args.mult, None, h)),
                    args, h)

SessionInputs ==
    { [timeframe |-> tf, ticks |-> t] : t \in Sessions, tf \in {"1m", "5m", "15m", "1d"} }

InitParity ==
    /\ reg = <<>>
    /\ gh = <<>>
    /\ host \in HostOffsets
    /\ steps = 0
    /\ thr = Idle
    /\ sock = NoSock
    /\ \E x \in SessionInputs :
          last = [hist |-> None, op |-> "session", in |-> x, live |-> None]

\* the session goes through a fresh live aggregator
ReplayLive ==
    /\ last.op = "session" /\ IsNone(last.live)
    /\ last' = [last EXCEPT !.live =
                   Some(LiveReplay(last.in.ticks, 1, [reg |-> <<>>, out |-> {}],
                                   ArgsT(last.in.timeframe), host))]
    /\ UNCHANGED <<reg, host, gh, steps, thr, sock>>

\* the session's fine bars go through process_hist_data
ReplayHist ==
    /\ last.op = "session" /\ IsNone(last.hist)
    /\ last' = [last EXCEPT !.hist =
                   Some(process_hist_data(SessionBars(last.in.ticks), TRUE,
                                          last.in.timeframe, FALSE, FALSE,
                                          ArgsT(last.in.timeframe).bs.v
                                              * ArgsT(last.in.timeframe).mult.v,
                                          TRUE, host))]
    /\ UNCHANGED <<reg, host, gh, steps, thr, sock>>

NextParity == ReplayLive \/ ReplayHist

SpecParity == InitParity /\ [][NextParity]_vars

\* ------------------------------ a subscription on the historical candles

MaxHistorySteps == 2

\* the candle handed back as hist_seed: an output row of process_hist_data
\* with its footprint list
LastCandle(r) ==
    [delta |-> r.delta, low |-> r.low, high |-> r.high, buy_vol |-> r.buy_vol,
     sell_vol |-> r.sell_vol, volume |-> r.volume, close |-> r.close,
     open |-> r.open, cum_delta |-> r.cum_delta,
     footprint |-> IF IsSome(r.footprint) THEN Val(r.footprint) ELSE <<>>,
     time |-> r.time,
     cum_volume |-> Some(r.cum_volume)]

\* the candles of a session's history at a timeframe
HistoryRows(x, h) ==
    process_hist_data(SessionBars(x.ticks), TRUE, x.timeframe, FALSE, FALSE,
                      ArgsT(x.timeframe).bs.v * ArgsT(x.timeframe).mult.v, TRUE, h)

\* the last of them
LastOf(rows) == LastCandle(CHOOSE r \in rows : \A q \in rows : q.time <= r.time)

\* histories of one or two fine bars
Histories == { x \in SessionInputs : Len(x.ticks) \in {1, 2} }

\* the feed goes on during the session: a second after each trade of the
\* history
TradeTimes == { Val(m.ts) + 1 : m \in SessionTicks }

\* a trade at the ask and a trade on a falling price, each with its quantity
HistoryTrades ==
    { BookTick(Some(t), 10050, 5, Some(10040), Some(10050), None, None) : t \in TradeTimes }
    \cup { Tick(Some(t), 9950, Some(4), None, Some(0 - 1)) : t \in TradeTimes }

\* a trade reported by the day's cumulative volume, 6 above the volume the
\* aggregator a has processed
CumTrade(a, t) ==
    Tick(Some(t), 10000, None, Some(Val(a.last_processed_cum_volume) + 6), Some(1))

\* start_live_feed seeds the aggregator from the last candle of the history,
\* for the first subscriber of the symbol only
SubscribeHistory ==
    \E x \in Histories :
      /\ DOMAIN reg = {}
      /\ DeliverWithin(MaxHistorySteps, ArgsT(x.timeframe),
                       PrimingTick(LastOf(HistoryRows(x, host))),
                       Some(LastOf(HistoryRows(x, host))))

\* the dispatcher passes a trade of the feed to a subscribed key
TradeAfterHistory ==
    \E tf \in {"1m", "5m", "15m", "1d"} :
        /\ LiveKey("X", tf, ArgsT(tf).bs, ArgsT(tf).mult) \in DOMAIN reg
        /\ \/ \E m \in HistoryTrades : DeliverWithin(MaxHistorySteps, ArgsT(tf), m, None)
           \/ \E t \in TradeTimes :
                 /\ IsSome(reg[LiveKey("X", tf, ArgsT(tf).bs,
                                       ArgsT(tf).mult)].last_processed_cum_volume)
                 /\ DeliverWithin(MaxHistorySteps, ArgsT(tf),
                                  CumTrade(reg[LiveKey("X", tf, ArgsT(tf).bs,
                                                       ArgsT(tf).mult)], t),
                                  None)

NextHistory == SubscribeHistory \/ TradeAfterHistory

SpecHistory == Init /\ [][NextHistory]_vars

\* ------------------------------------------------------ bin alignment alone

MaxBinDays == 1

\* seconds around the session midnight, the UTC midnight, the session open and
\* the session close of the days of the model, and the first seconds of the epoch
BinOffsets == {0 - 901, 0 - 61, 0 - 1, 0, 1, 59, 60, 299, 300, 301, 899, 900, 4000}

BinTimes ==
    { Day0Open + d * 86400 + base + o :
        d \in 0..MaxBinDays, base \in {0 - 33300, 0 - 13500, 0, 22500}, o \in BinOffsets }
    \cup {1, 59, 60, 86399}

BinInputs == { [ts |-> t, interval |-> i] : t \in BinTimes, i \in {60, 300, 900, 86400} }

\* the bin of a timestamp
Align ==
    /\ last.op = "input"
    /\ last' = PureResult("calculate_aligned_time_bin", last.in,
                          calculate_aligned_time_bin(last.in.ts, last.in.interval))
    /\ UNCHANGED <<reg, host, gh, steps, thr, sock>>

\* the bin of that bin
Realign ==
    /\ last.op = "calculate_aligned_time_bin"
    /\ last' = PureResult("calculate_aligned_time_bin again",
                          [last.in EXCEPT !.ts = Val(last.out)],
                          calculate_aligned_time_bin(Val(last.out), last.in.interval))
    /\ UNCHANGED <<reg, host, gh, steps, thr, sock>>

InitBin == InitPure(BinInputs)

NextBin == Align \/ Realign

SpecBin == InitBin /\ [][NextBin]_vars

\* ---------------------------------------------- the bucket function alone

MaxBucketPrice == 60

\* prices from 0.00 to 0.60 and the four prices around 100.25
BucketPrices == 0..MaxBucketPrice \cup {10010, 10024, 10025, 10049}

\* widths B = 0.01, 0.05, 0.10, 0.25 and 0.50 (multiplier 1), and B <= 0
BucketWidths == {0 - 5, 0, 1, 5, 10, 25, 50}

BucketInputs == { [bucket_value |-> b, price |-> p] : p \in BucketPrices, b \in BucketWidths }

\* the key of a price
Quantize ==
    /\ last.op = "input"
    /\ last' = PureResult("get_bucket_key", last.in,
                          get_bucket_key(last.in.price, last.in.bucket_value))
    /\ UNCHANGED <<reg, host, gh, steps, thr, sock>>

\* the key of that key
Requantize ==
    /\ last.op = "get_bucket_key"
    /\ last' = PureResult("get_bucket_key again", [last.in EXCEPT !.price = Val(last.out)],
                          get_bucket_key(Val(last.out), last.in.bucket_value))
    /\ UNCHANGED <<reg, host, gh, steps, thr, sock>>

InitBucket == InitPure(BucketInputs)

NextBucket == Quantize \/ Requantize

SpecBucket == InitBucket /\ [][NextBucket]_vars

\* ---------------------------- a feed with an implausible cumulative volume

MaxJumpSteps == 3

\* a trade with quantity and cumulative volume, a tick whose cumulative volume
\* jumps by more than the cap and has no quantity, quantity-only trades in the
\* same and in the next bin, a tick with a plausible cumulative volume only
\* and a trade whose cumulative volume fell
JumpTicks ==
    { Tick(TA, 10000, Some(10), Some(100), None),
      Tick(Some(Day0Open + 1), 10000, None, Some(100 + MaxCumJump + 1), None),
      Tick(Some(Day0Open + 2), 10050, Some(5), None, Some(1)),
      Tick(TC, 10000, Some(4), None, Some(0 - 1)),
      Tick(Some(Day0Open + 3), 10000, None, Some(130), None),
      Tick(Some(Day0Open + 4), 10000, Some(3), Some(50), None) }

JumpTick == \E m \in JumpTicks : DeliverWithin(MaxJumpSteps, Args5m, m, None)

SpecJump == Init /\ [][JumpTick]_vars

\* ------------------------------- a feed of trades reported without trade_id

MaxTradeSteps == 3

Key5m == LiveKey("X", Args5m.tf, Args5m.bs, Args5m.mult)

\* the cumulative volume that the feed reported last (100 before its first
\* trade)
ReportedCum ==
    IF Key5m \in DOMAIN reg /\ IsSome(reg[Key5m].last_cum_volume)
    THEN Val(reg[Key5m].last_cum_volume) ELSE 100

\* a trade of size q at price p in second t: vol_traded_today advances by q
CumTradeOf(t, p, q) == Tick(Some(t), p, Some(q), Some(ReportedCum + q), None)

\* trades of one candle, in two seconds, at two prices, of two sizes
TradeTick ==
    \E t \in {Day0Open, Day0Open + 1}, p \in {10000, 10050}, q \in {5, 10} :
        DeliverWithin(MaxTradeSteps, Args5m, CumTradeOf(t, p, q), None)

SpecTrades == Init /\ [][TradeTick]_vars

\* ------------------------------------------------ the reconciliation alone

MaxReconcileVol == 4

\* footprint maps held when the reconciliation runs: empty, one bucket, two
\* buckets of which the larger one has no sell volume, two buckets of equal
\* volume, a bucket without volume
ReconcileMaps ==
    { <<>>,
      <<FpItem(10000, 3, 2)>>,
      <<FpItem(10000, 0, 1), FpItem(10050, 3, 0)>>,
      <<FpItem(10000, 1, 1), FpItem(10050, 1, 1)>>,
      <<FpItem(10050, 0, 0)>> }

\* candles with every volume, buy_vol and sell_vol up to the bound, closing
\* below, at or above the open
ReconcileInputs ==
    { [fp |-> m, buy_vol |-> b, sell_vol |-> s, volume |-> v, dir |-> d] :
        v \in 0..MaxReconcileVol, b \in 0..MaxReconcileVol, s \in 0..MaxReconcileVol,
        d \in {0 - 1, 0, 1}, m \in ReconcileMaps }

\* the candle of an input
ReconcileCandle(x) ==
    [delta |-> x.buy_vol - x.sell_vol,
     low |-> Min2(10000, 10000 + 50 * x.dir),
     high |-> Max2(10000, 10000 + 50 * x.dir),
     buy_vol |-> x.buy_vol, sell_vol |-> x.sell_vol,
     volume |-> x.volume, close |-> 10000 + 50 * x.dir, open |-> 10000,
     cum_delta |-> x.buy_vol - x.sell_vol, footprint |-> <<>>,
     time |-> Day0Open, symbol |-> Some("X"),
     cum_volume |-> Some(x.volume)]

\* the aggregator that holds it
ReconcileAgg(x) ==
    [NewAggregator EXCEPT !.candle = Some(ReconcileCandle(x)), !.fp = x.fp,
                          !.session_cum_delta = x.buy_vol - x.sell_vol]

ReconcileLive ==
    /\ last.op = "input"
    /\ last' = PureResult("_reconcile_candle_and_footprint", last.in,
                          reconcile_candle_and_footprint(ReconcileAgg(last.in), 50))
    /\ UNCHANGED <<reg, host, gh, steps, thr, sock>>

\* the per-row reconciliation of process_hist_data on the same totals
ReconcileHist ==
    /\ last.op = "input"
    /\ last' = PureResult("process_hist_data", last.in, ReconcileRow(ReconcileCandle(last.in)))
    /\ UNCHANGED <<reg, host, gh, steps, thr, sock>>

InitReconcile == InitPure(ReconcileInputs)

NextReconcile == ReconcileLive \/ ReconcileHist

SpecReconcile == InitReconcile /\ [][NextReconcile]_vars

\* --------------------------------- calls on separate threads, on one key
\*
\* The feed thread (process_single_message), a subscribe handler
\* (start_live_feed, seeding) and a request handler (clear_processor_state)
\* run on separate threads and share the dict _candle_state, which no lock
\* protects.  Each call is split at the statements that touch the dict; the
\* seeding block and process_tick are taken as one step each.  Aggregators
\* are objects: thr.heap holds them, thr.slot is the object registered under
\* the key (None when the key is not in the dict), and a thread keeps the
\* object it read in its local `agg` (ref).

ConcKey == LiveKey("X", Args5m.tf, Args5m.bs, Args5m.mult)

LiveThreads == {"feed", "sub"}

\* a thread at the start of process_live_data / clear_processor_state
LiveStart == [ret |-> None, raised |-> "", pc |-> "test", ref |-> 0]
ClearStart == [ret |-> FALSE, pc |-> "test"]

\* the registry (as a function from keys to aggregators) the threads share
ConcReg(heap, slot) == IF IsSome(slot) THEN RegWith(<<>>, ConcKey, heap[Val(slot)]) ELSE <<>>

\* the tick and the last historical candle a thread passes
CallMsg(t) == IF t = "feed" THEN thr.msg ELSE PrimingTick(thr.hist)
CallHist(t) == IF t = "feed" THEN None ELSE Some(thr.hist)

\* ticks of the feed thread: a later bin, and the first bin
ConcTicks ==
    { Tick(TC, 10500, Some(20), None, Some(1)),
      Tick(TA, 10000, Some(3), Some(110), None) }

\* the key is not registered, or holds the aggregator of an earlier tick
ConcHeaps ==
    { <<>>,
      <<process_live_data(<<>>, Tick(TA, 10000, Some(10), Some(100), None), Args5m.tf,
                          Args5m.bs, Args5m.mult, None, host).reg[ConcKey]>> }

InitConc ==
    /\ reg = <<>>
    /\ gh = <<>>
    /\ host \in HostOffsets
    /\ last = NoCall
    /\ steps = 0
    /\ \E m \in ConcTicks : \E h \in RingHists : \E hp \in ConcHeaps :
         thr = [msg |-> m, hist |-> h, on |-> TRUE,
                heap |-> hp,
                slot |-> IF hp = <<>> THEN None ELSE Some(1),
                reg0 |-> ConcReg(hp, IF hp = <<>> THEN None ELSE Some(1)),
                feed |-> LiveStart, sub |-> LiveStart, clr |-> ClearStart]
    /\ sock = NoSock

\* `if key not in _candle_state:`
LiveTest(t) ==
    /\ thr[t].pc = "test"
    /\ thr' = [thr EXCEPT ![t].pc = IF IsNone(thr.slot) THEN "create" ELSE "read"]
    /\ UNCHANGED <<reg, host, last, gh, steps, sock>>

\* `_candle_state[key] = CandleAggregator(timeframe, bucket_size, multiplier)`
LiveCreate(t) ==
    /\ thr[t].pc = "create"
    /\ thr' = [thr EXCEPT !.heap = Append(@, NewAggregator),
                          !.slot = Some(Len(thr.heap) + 1),
                          ![t].pc = "read"]
    /\ UNCHANGED <<reg, host, last, gh, steps, sock>>

\* `agg = _candle_state[key]`: KeyError when the key is not in the dict; the
\* handler `except (ValueError, TypeError)` does not catch it
LiveRead(t) ==
    /\ thr[t].pc = "read"
    /\ thr' = IF IsNone(thr.slot)
              THEN [thr EXCEPT ![t].pc = "done", ![t].raised = "KeyError"]
              ELSE [thr EXCEPT ![t].pc = "seed", ![t].ref = Val(thr.slot)]
    /\ UNCHANGED <<reg, host, last, gh, steps, sock>>

\* the seeding block, on the object the thread holds
LiveSeed(t) ==
    /\ thr[t].pc = "seed"
    /\ thr' = IF NeedSeed(thr.heap[thr[t].ref], CallHist(t))
              THEN [thr EXCEPT ![t].pc = "tick",
                               !.heap[thr[t].ref] =
                                   SeedAggregator(@, thr.hist, host).agg]
              ELSE [thr EXCEPT ![t].pc = "tick"]
    /\ UNCHANGED <<reg, host, last, gh, steps, sock>>

\* the thread t finishes with the result r of the seed guard / process_tick
\* on the object it holds
LiveFinish(t, r) ==
    [thr EXCEPT ![t].pc = "done", ![t].ret = r.ret, ![t].raised = r.raised,
                !.heap[thr[t].ref] = r.reg[ConcKey]]

\* the seed guard and `candle = agg.process_tick(msg)`
LiveTick(t) ==
    /\ thr[t].pc = "tick"
    /\ thr' = LiveFinish(t, LiveSeeded(<<>>, CallMsg(t), Args5m.tf,
                                       ToFloat(Args5m.bs).v * ToInt(Args5m.mult).v,
                                       host, ConcKey, FALSE,
                                       [agg |-> thr.heap[thr[t].ref], raised |-> ""]))
    /\ UNCHANGED <<reg, host, last, gh, steps, sock>>

\* clear_processor_state: `if key in _candle_state:`
ClearTest ==
    /\ thr.clr.pc = "test"
    /\ thr' = [thr EXCEPT !.clr.pc = IF IsSome(thr.slot) THEN "del" ELSE "done"]
    /\ UNCHANGED <<reg, host, last, gh, steps, sock>>

\* `del _candle_state[key]; return True`
ClearDel ==
    /\ thr.clr.pc = "del"
    /\ thr' = [thr EXCEPT !.clr.pc = "done", !.clr.ret = TRUE, !.slot = None]
    /\ UNCHANGED <<reg, host, last, gh, steps, sock>>

LiveThreadStep ==
    \E t \in LiveThreads :
        LiveTest(t) \/ LiveCreate(t) \/ LiveRead(t) \/ LiveSeed(t) \/ LiveTick(t)

NextConc == LiveThreadStep \/ ClearTest \/ ClearDel

SpecConc == InitConc /\ [][NextConc]_vars

\* ------------------------------------------------------------- properties

\* the last call was a process_live_data call whose tick was accepted
Accepted == last.op = "live" /\ last.did \in {"new", "update"}
\* the candle it returned, and the bookkeeping of its key
Returned == Val(last.ret)
Book == gh[Val(last.regkey)]

\* a step of the model that is a process_live_data call
LiveStep == steps' = steps + 1 /\ last'.op = "live"
\* the aggregator of the called key before the call (a fresh one if none)
AggBefore ==
    IF Val(last'.regkey) \in DOMAIN reg THEN reg[Val(last'.regkey)] ELSE NewAggregator
AggAfter == reg'[Val(last'.regkey)]
\* the seeded candle as held after a completed seeding from h
FullSeeded(h) ==
    [SeededCandle(h) EXCEPT !.cum_volume = IF HistCumOk(h) THEN h.cum_volume ELSE None]
\* the candle the tick of the call met: the one just seeded, else the held one
CandleMet ==
    IF last'.seeded THEN Some(FullSeeded(Val(last'.hist))) ELSE AggBefore.candle

\* C1 - live volume conservation: every candle returned after an accepted
\* tick has buy_vol + sell_vol = volume, and its volume is the sum of the
\* extracted volumes of the ticks accepted into it (on top of the seeded
\* volume when the candle was seeded).
C1_VolumeConservation ==
    Accepted =>
        /\ Returned.buy_vol + Returned.sell_vol = Returned.volume
        /\ Returned.volume = Book.acc

\* C1 witness: a tick was folded into a seeded candle whose split did not add
\* up to its volume, so the totals block had to reconcile
C1_Witness ==
    /\ Accepted /\ last.did = "update"
    /\ IsSome(Book.base)
    /\ Returned.time = Day0Open
    /\ Returned.volume = 10 + last.vol
    /\ Returned.buy_vol + Returned.sell_vol = Returned.volume

\* C2 - live footprint conservation: after every accepted tick the emitted
\* footprint sums to the candle's buy_vol and sell_vol, also after a seeding
\* call that left an older footprint map in place.
C2_FootprintConservation ==
    Accepted =>
        /\ LadderBuy(Returned.footprint) = Returned.buy_vol
        /\ LadderSell(Returned.footprint) = Returned.sell_vol

\* sum of the deltas of the closed candles of a trading day
RECURSIVE ClosedDelta(_, _)
ClosedDelta(closed, day) ==
    IF closed = <<>> THEN 0
    ELSE (IF Head(closed).day = day THEN Head(closed).delta ELSE 0)
         + ClosedDelta(Tail(closed), day)

\* the cumulative delta the day's history implies for a candle
ExpectedCumDelta(book, c) ==
    LET day == TradingDay(c.time)
    IN  (IF IsSome(book.base) /\ Val(book.base).day = day THEN Val(book.base).off ELSE 0)
        + ClosedDelta(book.closed, day) + c.delta

\* C3 - cumulative delta: with feed times arriving in non-decreasing order,
\* after every accepted tick cum_delta is the sum of buy_vol - sell_vol over
\* the candles of the current trading day closed earlier, plus the current
\* candle's delta, plus the seeded offset if the aggregator was seeded on
\* that day.
C3_CumDeltaIsDaySum ==
    (Accepted /\ Book.ordered) =>
        Returned.cum_delta = ExpectedCumDelta(Book, Returned)

\* C3 witness: an accepted tick in a candle that follows a closed candle of
\* the same day with a non-zero delta
C3_Witness ==
    /\ Accepted /\ Book.ordered
    /\ \E i \in 1..Len(Book.closed) :
          /\ Book.closed[i].day = TradingDay(Returned.time)
          /\ Book.closed[i].delta # 0
    /\ Returned.cum_delta # Returned.delta

\* C4 - day reset: a candle opened on another trading day than the candle
\* held before starts cum_delta at its own delta; a candle opened on the same
\* trading day continues from the previous cum_delta.
C4_DayReset ==
    [][ (LiveStep /\ last'.did = "new" /\ IsSome(CandleMet)) =>
            IF TradingDay(Val(CandleMet).time) # TradingDay(Val(last'.ret).time)
            THEN Val(last'.ret).cum_delta = Val(last'.ret).delta
            ELSE Val(last'.ret).cum_delta
                 = Val(CandleMet).cum_delta + Val(last'.ret).delta ]_vars

\* C4 witness: the first candle of the next day was opened after a day that
\* had accumulated a non-zero delta
C4_Witness ==
    /\ Accepted /\ last.did = "new"
    /\ Len(Book.closed) > 0
    /\ Book.closed[Len(Book.closed)].day # TradingDay(Returned.time)
    /\ Book.closed[Len(Book.closed)].delta # 0
    /\ Returned.cum_delta = Returned.delta

\* C5 - duplicate tick: the same tick record delivered twice in a row for
\* the same key leaves the candle as it was after the first delivery.
C5_DuplicateTick ==
    [][ (/\ LiveStep /\ last.op = "live"
         /\ last'.msg = last.msg /\ last'.args = last.args
         /\ IsNone(last.hist) /\ IsNone(last'.hist)
         /\ IsSome(last'.regkey) /\ IsSome(AggBefore.candle)) =>
            AggAfter.candle = AggBefore.candle ]_vars

\* C7 - idempotent seed: once an aggregator holds the candle seeded from h, a
\* tick whose vol_traded_today is h's cum_volume and that has no
\* last_traded_qty returns that candle with every field as seeded and changes
\* nothing; so does every repetition.
C7_IdempotentSeed ==
    [][ \A h \in HistCandles :
          (/\ LiveStep /\ last'.raised = "" /\ IsSome(last'.regkey)
           /\ HistCumOk(h)
           /\ Val(last'.msg).vol_traded_today = h.cum_volume
           /\ IsNone(Val(last'.msg).last_traded_qty)
           /\ CandleMet = Some(FullSeeded(h))) =>
              /\ last'.ret = Some([FullSeeded(h) EXCEPT !.symbol = Some("X")])
              /\ AggAfter.candle = Some(FullSeeded(h))
              /\ (~last'.seeded => reg' = reg) ]_vars

\* C7 witness: the tick was repeated on the seeded candle and answered with it
C7_Witness ==
    /\ last.op = "live" /\ last.did = "guard" /\ ~last.seeded
    /\ IsNone(Val(last.msg).last_traded_qty)
    /\ \E h \in HistCandles :
          /\ HistCumOk(h)
          /\ Val(last.msg).vol_traded_today = h.cum_volume
          /\ reg[Val(last.regkey)].candle = Some(FullSeeded(h))

\* C8 - no rewind: a tick never replaces the current candle by a candle with
\* an earlier time.
C8_NoRewind ==
    [][ (/\ LiveStep /\ ~last'.seeded /\ last'.did \in {"new", "update"}
         /\ IsSome(AggBefore.candle)) =>
            Val(AggAfter.candle).time >= Val(AggBefore.candle).time ]_vars

\* C9 - no error escapes process_live_data: every call returns a candle or
\* null.
C9_NoErrorEscapes == last.op = "live" => last.raised = ""


\* the keys of the trades accepted last on the called key (at most 200)
RecentBefore ==
    IF Val(last'.regkey) \in DOMAIN gh THEN gh[Val(last'.regkey)].recent ELSE <<>>

\* the ring the tick of the call met: emptied by a seeding that got as far as
\* a usable cum_volume, else the held one
RingMet ==
    IF last'.seeded /\ last'.raised = "" /\ HistCumOk(Val(last'.hist))
    THEN <<>> ELSE AggBefore.ring

\* C6 as stated - dedup ring: a tick whose key is the key of one of the 200
\* most recently accepted trades returns null and changes neither candle,
\* footprint map nor ring; any other key is accepted; the ring never holds
\* more than 200 keys.
C6_DedupRecent ==
    [][ (LiveStep /\ IsSome(last'.key)) =>
            /\ Len(AggAfter.ring) <= 200
            /\ IF \E i \in 1..Len(RecentBefore) : RecentBefore[i] = Val(last'.key)
               THEN /\ last'.did = "dup" /\ IsNone(last'.ret)
                    /\ AggAfter.candle = AggBefore.candle
                    /\ AggAfter.fp = AggBefore.fp
                    /\ AggAfter.ring = AggBefore.ring
               ELSE last'.did \in {"new", "update"} ]_vars

\* C6 amended - dedup ring: the ring holds the keys of the most recently
\* accepted trades, at most 200, back to the last seeding that got as far as a
\* usable cum_volume (which empties it).  A tick whose key is held returns null and
\* changes neither candle, footprint map nor ring; a key that is not held
\* (never seen, evicted, or dropped by a seeding) is accepted and appended,
\* the oldest key leaving a full ring; opening a new candle keeps the keys.
C6_DedupRing ==
    [][ (LiveStep /\ IsSome(last'.regkey)) =>
            LET old == RingMet
                n == Len(old)
                new == AggAfter.ring
                rec == gh'[Val(last'.regkey)].recent
            IN  /\ Len(new) <= 200
                /\ Len(new) <= Len(rec)
                /\ new = SubSeq(rec, Len(rec) - Len(new) + 1, Len(rec))
                /\ IsNone(last'.key) => new = old
                /\ IsSome(last'.key) =>
                     IF \E i \in 1..n : old[i] = Val(last'.key)
                     THEN /\ last'.did = "dup" /\ IsNone(last'.ret)
                          /\ AggAfter.candle = AggBefore.candle
                          /\ AggAfter.fp = AggBefore.fp
                          /\ new = old
                     ELSE /\ last'.did \in {"new", "update"}
                          /\ new = Append(IF n < 200 THEN old ELSE SubSeq(old, 2, n),
                                          Val(last'.key)) ]_vars

\* C6 witness: the first trade, evicted from a full ring, was delivered again
\* and accepted
C6_Witness ==
    /\ Accepted
    /\ steps > RingCap
    /\ Val(last.msg).trade_id = Some(1)
    /\ Len(reg[Val(last.regkey)].ring) = RingCap
    /\ Len(gh[Val(last.regkey)].recent) = RingCap

\* a step of the model that is a clear_processor_state call
ClearStep == steps' = steps + 1 /\ last'.op = "clear"

\* C10 - clear_processor_state returns true exactly when an aggregator
\* created by an earlier process_live_data call with the same four arguments
\* (the same symbol and timeframe, numerically equal bucket size and
\* multiplier) is still registered, and then removes that slot and no other.
C10_ClearExactly ==
    [][ ClearStep =>
            LET a == Val(last'.args)
                mine == {k \in DOMAIN reg :
                            /\ gh[k].by.tf = a.tf
                            /\ gh[k].by.bs.v = a.bs.v
                            /\ gh[k].by.mult.v = a.mult.v}
            IN  /\ last'.cleared = (mine # {})
                /\ DOMAIN reg' = DOMAIN reg \ mine
                /\ \A k \in DOMAIN reg' : reg'[k] = reg[k] ]_vars

\* what the three calls returned or raised and the registry they left
ConcOutcome ==
    [reg |-> ConcReg(thr.heap, thr.slot),
     feed |-> [ret |-> thr.feed.ret, raised |-> thr.feed.raised],
     sub |-> [ret |-> thr.sub.ret, raised |-> thr.sub.raised],
     clr |-> thr.clr.ret]

\* the same, for calls made one after the other
SeqLive(st, t, r) == [st EXCEPT !.reg = r.reg, ![t] = [ret |-> r.ret, raised |-> r.raised]]

SeqClear(st, r) == [st EXCEPT !.reg = r.reg, !.clr = r.ret]

SeqCall(st, t) ==
    IF t = "clr"
    THEN SeqClear(st, clear_processor_state(st.reg, "X", Args5m.tf, Args5m.bs, Args5m.mult))
    ELSE SeqLive(st, t, process_live_data(st.reg, CallMsg(t), Args5m.tf, Args5m.bs,
                                          Args5m.mult, CallHist(t), host))

SeqOrders ==
    { <<"feed", "sub", "clr">>, <<"feed", "clr", "sub">>, <<"sub", "feed", "clr">>,
      <<"sub", "clr", "feed">>, <<"clr", "feed", "sub">>, <<"clr", "sub", "feed">> }

\* nothing called yet, on the registry reg0
SeqStart(reg0) ==
    [reg |-> reg0, feed |-> [ret |-> None, raised |-> ""],
     sub |-> [ret |-> None, raised |-> ""], clr |-> FALSE]

SeqOutcomes(reg0) ==
    { SeqCall(SeqCall(SeqCall(SeqStart(reg0), o[1]), o[2]), o[3]) : o \in SeqOrders }

ConcDone == thr.on /\ thr.feed.pc = "done" /\ thr.sub.pc = "done" /\ thr.clr.pc = "done"

\* C11: for every interleaving of the feed thread's process_live_data, a
\* subscribe handler's seeding process_live_data and a request handler's
\* clear_processor_state on one key, what the calls return and the registry
\* they leave are those of the three calls made in some sequential order
C11_Serialized ==
    ConcDone => ConcOutcome \in SeqOutcomes(thr.reg0)

\* the ladder built by the call that `last` records, and the bucket indexes
\* of the candle's high and low
BuiltLadder == Val(last.out)
HighIdx == last.in.candle.high \div last.in.bucket_value
LowIdx == last.in.candle.low \div last.in.bucket_value

LadderBuilt ==
    /\ last.op = "build_footprint_from_map"
    /\ last.in.bucket_value > 0
    /\ last.in.fp_map # <<>>

CandleNonNegative(c) ==
    /\ c.volume \in Nat /\ c.buy_vol \in Nat /\ c.sell_vol \in Nat
    /\ IsSome(c.cum_volume) => Val(c.cum_volume) \in Nat
    /\ \A i \in 1..Len(c.footprint) :
          c.footprint[i].buyVolume \in Nat /\ c.footprint[i].sellVolume \in Nat

AggNonNegative(a) ==
    /\ IsSome(a.candle) => CandleNonNegative(Val(a.candle))
    /\ \A i \in 1..Len(a.fp) : a.fp[i].buy \in Nat /\ a.fp[i].sell \in Nat

\* C13: in every reachable aggregator state and every emitted candle, volume,
\* buy_vol, sell_vol, cum_volume and every footprint buyVolume and sellVolume
\* are non-negative integers, whatever the book quantities of the ticks
C13_NonNegative ==
    /\ \A k \in DOMAIN reg : AggNonNegative(reg[k])
    /\ IsSome(last.ret) => CandleNonNegative(Val(last.ret))

\* a trade was added to a candle on a tick whose resting buy quantity is
\* negative: the pressure split gave a negative buy side
C13_Witness ==
    /\ Accepted /\ last.did = "update"
    /\ IsSome(Val(last.msg).tot_buy_qty)
    /\ Val(Val(last.msg).tot_buy_qty) < 0
    /\ Val(Val(last.msg).tot_buy_qty) + Val(Val(last.msg).tot_sell_qty) > 0
    /\ Returned.volume > last.vol
    /\ Returned.buy_vol + Returned.sell_vol = Returned.volume

\* the allocation that `last` records, its total, its weights and their sum
Allocated == Val(last.out)
AllocTotal == last.in.total
AllocWeights == last.in.weights
AllocSum == SumSeq(last.in.weights)

\* floor, ceiling and fractional part (as a numerator over AllocSum) of the
\* exact share of index i
ShareFloor(i) == (AllocTotal * AllocWeights[i]) \div AllocSum
ShareFrac(i) == (AllocTotal * AllocWeights[i]) % AllocSum
ShareCeil(i) == ShareFloor(i) + (IF ShareFrac(i) > 0 THEN 1 ELSE 0)

\* C14: for T >= 0 and non-negative integer weights W, proportional_alloc
\* returns |W| non-negative integers that sum to T (when |W| > 0); with a
\* positive sum of weights each is floor(T*w/S) or that plus one, never above
\* ceil(T*w/S), the extra units going to the largest fractional parts with
\* ties to the lower index; with S = 0 the split is even with the remainder
\* on the leading indices
C14_Allocator ==
    (last.op = "proportional_alloc" /\ AllocTotal >= 0) =>
        /\ Len(Allocated) = Len(AllocWeights)
        /\ \A i \in 1..Len(Allocated) : Allocated[i] \in Nat
        /\ Len(AllocWeights) > 0 => SumSeq(Allocated) = AllocTotal
        /\ AllocSum > 0 =>
              \A i \in 1..Len(Allocated) :
                 /\ Allocated[i] \in {ShareFloor(i), ShareFloor(i) + 1}
                 /\ Allocated[i] <= ShareCeil(i)
                 /\ \A j \in 1..Len(Allocated) :
                       (Allocated[i] = ShareFloor(i) + 1 /\ Allocated[j] = ShareFloor(j)) =>
                           \/ ShareFrac(i) > ShareFrac(j)
                           \/ (ShareFrac(i) = ShareFrac(j) /\ i < j)
        /\ AllocSum = 0 =>
              \A i \in 1..Len(Allocated) :
                 Allocated[i] = (AllocTotal \div Len(Allocated))
                                + (IF i <= AllocTotal % Len(Allocated) THEN 1 ELSE 0)

\* the example of the claim: 10 over the weights 1, 1, 1 gives 4, 3, 3
C14_Witness ==
    /\ last.op = "proportional_alloc"
    /\ AllocTotal = 10 /\ AllocWeights = <<1, 1, 1>>
    /\ Allocated = <<4, 3, 3>>

\* C15: for every vol > 0 and every combination of present or absent
\* bid_price, ask_price, tot_buy_qty, tot_sell_qty and ch (ask < bid and
\* negative or zero book quantities included), calculate_aggressor_volumes
\* returns non-negative integers (buy, sell) with buy + sell = vol
C15_ClassifierTotals ==
    (last.op = "calculate_aggressor_volumes" /\ last.in.vol > 0) =>
        /\ Val(last.out)[1] \in Nat
        /\ Val(last.out)[2] \in Nat
        /\ Val(last.out)[1] + Val(last.out)[2] = last.in.vol

\* the tick of the extractor call that `last` records: C and q, the baseline
\* L before and after the call, and the returned quantity
ExtC == last.in.vol_traded_today
ExtQ == IF IsSome(last.in.last_traded_qty) /\ Val(last.in.last_traded_qty) > 0
        THEN Val(last.in.last_traded_qty) ELSE 0
ExtBefore == last.before
ExtAfter == last.agg.last_processed_cum_volume
ExtVol == Val(last.out)

\* C16: the returned quantity and the baseline L follow the rules: first
\* sighting or C < L sets L := C and returns q if q > 0 else 0; 0 < C - L <=
\* 2,000,000 sets L := C and returns C - L; otherwise q > 0 sets L := C and
\* returns q, and q <= 0 or absent returns 0 with L unchanged; with no C (or
\* a negative one) the result is q if q > 0 else 0 and L is unchanged
C16_Extractor ==
    last.op = "determine_trade_volume" =>
        IF IsSome(ExtC) /\ Val(ExtC) >= 0
        THEN IF IsNone(ExtBefore) \/ Val(ExtC) < Val(ExtBefore)
             THEN ExtAfter = ExtC /\ ExtVol = ExtQ
             ELSE IF Val(ExtC) - Val(ExtBefore) > 0
                     /\ Val(ExtC) - Val(ExtBefore) <= 2000000
             THEN ExtAfter = ExtC /\ ExtVol = Val(ExtC) - Val(ExtBefore)
             ELSE IF ExtQ > 0
             THEN ExtAfter = ExtC /\ ExtVol = ExtQ
             ELSE ExtAfter = ExtBefore /\ ExtVol = 0
        ELSE ExtAfter = ExtBefore /\ ExtVol = ExtQ

\* a jump of the cumulative volume above the cap on a tick with a quantity:
\* the quantity is returned and the baseline moves
C16_Witness ==
    /\ last.op = "determine_trade_volume"
    /\ IsSome(ExtBefore) /\ IsSome(ExtC)
    /\ Val(ExtC) - Val(ExtBefore) = 2000001
    /\ ExtVol = 3
    /\ ExtAfter = ExtC

\* the S1 tick has just opened a candle in a fresh aggregator
S1Opened ==
    /\ steps = 1 /\ last.op = "live" /\ last.did = "new"
    /\ last.msg = Some(S1Tick)

\* the candle returned for S2 has the totals of the scenario
S2Totals(c) ==
    /\ c.high = 10100 /\ c.close = 10100
    /\ c.volume = 18 /\ c.buy_vol = 13 /\ c.sell_vol = 5
    /\ c.delta = 8 /\ c.cum_delta = 8

\* C17 as stated: after S1, the S2 tick yields high 101.0, close 101.0,
\* volume 18, buy_vol 13, sell_vol 5, delta 8, cum_delta 8 and a footprint
\* that contains level 101.0 with buy 8, sell 0 and level 100.0 with buy 5,
\* sell 5
C17_ScenarioS2 ==
    [][(S1Opened /\ LiveStep /\ last'.msg = Some(S2Tick)) =>
          /\ IsSome(last'.ret)
          /\ S2Totals(Val(last'.ret))
          /\ \E i \in 1..Len(Val(last'.ret).footprint) :
                Val(last'.ret).footprint[i] = Level(10100, 8, 0)
          /\ \E i \in 1..Len(Val(last'.ret).footprint) :
                Val(last'.ret).footprint[i] = Level(10000, 5, 5)]_vars

\* C17 amended: the totals are as stated, and the footprint is the single
\* level 100.0 with buy 13, sell 5 (with buckets of 5.00 the price 101.0
\* belongs to the bucket 100.0)
C17_ScenarioS2Bucketed ==
    [][(S1Opened /\ LiveStep /\ last'.msg = Some(S2Tick)) =>
          /\ IsSome(last'.ret)
          /\ S2Totals(Val(last'.ret))
          /\ Val(last'.ret).footprint = <<Level(10000, 13, 5)>>]_vars

\* S2 was folded into the candle that S1 opened
C17_Witness ==
    /\ steps = 2 /\ Accepted /\ last.did = "update"
    /\ last.msg = Some(S2Tick)
    /\ Returned.open = 10000 /\ Returned.low = 10000
    /\ S2Totals(Returned)

\* the rows returned by the process_hist_data call that `last` records
HistDone == last.op = "process_hist_data"
HistRows == Val(last.out)

\* the deduplicated fine bars of the input that fall into the bin of row r
BinBars(r) ==
    { i \in KeptBars(last.in.df, last.in.by_symbol) :
        /\ (last.in.df[i].timestamp \div IntervalOf(last.in.timeframe))
              * IntervalOf(last.in.timeframe) = r.time
        /\ last.in.by_symbol => Some(last.in.df[i].symbol) = r.symbol }

\* C18: every row output by process_hist_data has buy_vol + sell_vol =
\* volume and delta = buy_vol - sell_vol, and its volume is the sum of the
\* volumes of the deduplicated fine bars of its bin; with or without buy/sell
\* columns in the input, kept or not
C18_HistConservation ==
    HistDone =>
        \A r \in HistRows :
            /\ r.buy_vol + r.sell_vol = r.volume
            /\ r.delta = r.buy_vol - r.sell_vol
            /\ BinBars(r) # {}
            /\ r.volume = SumOver([i \in 1..Len(last.in.df) |-> last.in.df[i].volume],
                                  BinBars(r))

\* a duplicate bar was dropped and the buy/sell columns of the bin, which
\* were kept, exceeded its volume
C18_Witness ==
    /\ HistDone
    /\ last.in.cols /\ last.in.preserve /\ last.in.timeframe = "5m"
    /\ Len(last.in.df) = 3
    /\ Cardinality(KeptBars(last.in.df, last.in.by_symbol)) = 2
    /\ \E r \in HistRows :
          /\ r.volume = 7
          /\ r.buy_vol + r.sell_vol = 7
          /\ r.time = Day0Open

RECURSIVE SumDelta(_)
SumDelta(S) ==
    IF S = {} THEN 0
    ELSE LET r == CHOOSE r \in S : TRUE IN r.delta + SumDelta(S \ {r})

RECURSIVE SumVolume(_)
SumVolume(S) ==
    IF S = {} THEN 0
    ELSE LET r == CHOOSE r \in S : TRUE IN r.volume + SumVolume(S \ {r})

\* the rows of r's symbol and trading day up to r's time
DaySoFar(r) ==
    { q \in HistRows :
        /\ q.symbol = r.symbol
        /\ TradingDay(q.time) = TradingDay(r.time)
        /\ q.time <= r.time }

\* C19: for each symbol, a row's cum_delta is the sum of delta and its
\* cum_volume the sum of volume over the rows of the same trading day up to
\* the row's time (so both restart at the first row of a trading day), and
\* vol_traded_today and last_cum_volume equal cum_volume
C19_HistCumulative ==
    HistDone =>
        \A r \in HistRows :
            /\ r.cum_delta = SumDelta(DaySoFar(r))
            /\ r.cum_volume = SumVolume(DaySoFar(r))
            /\ r.vol_traded_today = r.cum_volume
            /\ r.last_cum_volume = r.cum_volume

\* two rows of one trading day followed by a row of the next day, which
\* starts again from its own volume
C19_Witness ==
    /\ HistDone
    /\ \E q, r, n \in HistRows :
          /\ q.symbol = r.symbol /\ r.symbol = n.symbol
          /\ q.time < r.time /\ r.time < n.time
          /\ TradingDay(q.time) = TradingDay(r.time)
          /\ TradingDay(n.time) # TradingDay(r.time)
          /\ r.cum_volume = q.volume + r.volume
          /\ r.cum_delta = q.delta + r.delta /\ q.delta # 0
          /\ n.cum_volume = n.volume /\ n.cum_delta = n.delta

\* the session was replayed both ways
Replayed == last.op = "session" /\ IsSome(last.live) /\ IsSome(last.hist)
LiveCandles == Val(last.live)
HistCandleRows == Val(last.hist)

\* C20: for a session replayed both ways at the same timeframe, with the
\* same buy/sell split per fine bar, process_hist_data and the live
\* aggregator produce the same set of candle times and, per candle, the same
\* open, high, low, close, volume, delta and cum_delta; every in-session
\* timestamp is assigned to the same bin start by both paths
C20_Parity ==
    Replayed =>
        /\ {c.time : c \in LiveCandles} = {r.time : r \in HistCandleRows}
        /\ \A c \in LiveCandles : \A r \in HistCandleRows :
              c.time = r.time =>
                 /\ c.open = r.open /\ c.high = r.high
                 /\ c.low = r.low /\ c.close = r.close
                 /\ c.volume = r.volume /\ c.delta = r.delta
                 /\ c.cum_delta = r.cum_delta
        /\ \A i \in 1..Len(last.in.ticks) :
              calculate_aligned_time_bin(Val(last.in.ticks[i].ts),
                                         IntervalOf(last.in.timeframe))
              = (Val(last.in.ticks[i].ts) \div IntervalOf(last.in.timeframe))
                   * IntervalOf(last.in.timeframe)

\* the called key holds a candle seeded from a historical candle and no tick
\* was accepted on the key so far
SeededUntouched ==
    /\ IsSome(last'.regkey)
    /\ Val(last'.regkey) \in DOMAIN gh
    /\ IsSome(gh[Val(last'.regkey)].base)
    /\ gh[Val(last'.regkey)].recent = <<>>
    /\ IsSome(AggBefore.candle)

\* the feed time of the call's tick lies in the timeframe interval of c
InIntervalOf(c) ==
    /\ IsSome(Val(last'.msg).ts)
    /\ Val(Val(last'.msg).ts) >= c.time
    /\ Val(Val(last'.msg).ts) < c.time + IntervalOf(Val(last'.args).tf)

\* the returned candle is c with the call's tick folded in
Continues(c, split) ==
    /\ Val(last'.ret).time = c.time
    /\ Val(last'.ret).volume = c.volume + last'.vol
    /\ Val(last'.ret).buy_vol = c.buy_vol + split[1]
    /\ Val(last'.ret).sell_vol = c.sell_vol + split[2]
    /\ Val(last'.ret).cum_delta = c.cum_delta + (split[1] - split[2])

\* C21 - seeding continuity: after an aggregator was seeded from the last
\* candle h of process_hist_data at the same timeframe (1m, 5m, 15m or 1d),
\* the first accepted tick with a feed time in h's interval updates the seeded
\* candle: the returned candle has time h.time, volume h.volume + vol, the
\* tick's split added to buy_vol and sell_vol, and cum_delta h.cum_delta +
\* (buy - sell).
C21_SeedContinuity ==
    [][ (/\ LiveStep /\ ~last'.seeded /\ last'.did \in {"new", "update"}
         /\ SeededUntouched
         /\ InIntervalOf(Val(AggBefore.candle))) =>
            Continues(Val(AggBefore.candle),
                      TickSplit(Val(last'.msg), last'.vol)) ]_vars

\* C22 - seed guard scope: process_live_data answers with the held candle
\* without calling process_tick only when the tick's cumulative volume is the
\* held candle's cumulative volume and the tick carries no last_traded_qty;
\* every other tick, one with last_traded_qty > 0 and the same cumulative
\* volume included, goes to process_tick.
C22_GuardScope ==
    [][ (LiveStep /\ last'.raised = "" /\ last'.did # "reject") =>
           (last'.did = "guard"
              <=> /\ IsSome(CandleMet)
                  /\ IsSome(Val(last'.msg).vol_traded_today)
                  /\ Val(Val(last'.msg).vol_traded_today) = SeedCum(Val(CandleMet))
                  /\ RawQty(Val(last'.msg)) = 0) ]_vars

\* C23 - bucket quantization: with B > 0 the key of a price (both in
\* hundredths) is floor(price / B) * B, the largest multiple of B not above
\* the price; keys are monotone in the price and the key of a key is that
\* key; with B = 0.25 the prices 100.10, 100.24, 100.25, 100.49 give 100.0,
\* 100.0, 100.25, 100.25; with B <= 0 the key is the price.
C23_BucketKey ==
    /\ (last.op = "get_bucket_key" /\ last.in.bucket_value > 0) =>
          /\ Val(last.out) = (last.in.price \div last.in.bucket_value) * last.in.bucket_value
          /\ Val(last.out) % last.in.bucket_value = 0
          /\ Val(last.out) <= last.in.price
          /\ Val(last.out) + last.in.bucket_value > last.in.price
          /\ Val(last.out) <= get_bucket_key(last.in.price + 1, last.in.bucket_value)
          /\ (last.in.bucket_value = 25 /\ last.in.price \in {10010, 10024}) =>
                Val(last.out) = 10000
          /\ (last.in.bucket_value = 25 /\ last.in.price \in {10025, 10049}) =>
                Val(last.out) = 10025
    /\ (last.op = "get_bucket_key" /\ last.in.bucket_value <= 0) =>
          Val(last.out) = last.in.price
    /\ (last.op = "get_bucket_key again" /\ last.in.bucket_value > 0) =>
          Val(last.out) = last.in.price

\* the cascade as stated, step 1: spread analysis, only for ask >= bid
StatedSpread(msg, vol) ==
    IF /\ IsSome(msg.bid_price) /\ IsSome(msg.ask_price) /\ IsSome(msg.ltp)
       /\ Val(msg.ask_price) >= Val(msg.bid_price)
    THEN IF Val(msg.ltp) >= Val(msg.ask_price) THEN <<vol, 0>>
         ELSE IF Val(msg.ltp) <= Val(msg.bid_price) THEN <<0, vol>>
         ELSE BookSplit(msg, vol)
    ELSE <<0, 0>>

\* step 2: order-book pressure, if step 1 gave (0, 0)
StatedPressure(msg, vol, s1) ==
    IF s1 = <<0, 0>> /\ HasBook(msg) /\ Val(msg.tot_buy_qty) + Val(msg.tot_sell_qty) > 0
    THEN PressureSplit(msg, vol) ELSE s1

\* step 3: price change, if step 2 gave (0, 0)
StatedChange(msg, vol, s2) ==
    IF s2 # <<0, 0>> THEN s2
    ELSE IF IsSome(msg.ch) /\ Val(msg.ch) > 0 THEN <<vol, 0>>
    ELSE IF IsSome(msg.ch) /\ Val(msg.ch) < 0 THEN <<0, vol>>
    ELSE HalfSplit(vol)

StatedCascade(msg, vol) ==
    StatedChange(msg, vol, StatedPressure(msg, vol, StatedSpread(msg, vol)))

\* the resting quantities of the tick are absent or not negative
PlainBook(msg) ==
    /\ IsSome(msg.tot_buy_qty) => Val(msg.tot_buy_qty) >= 0
    /\ IsSome(msg.tot_sell_qty) => Val(msg.tot_sell_qty) >= 0

\* C24 - classifier cascade order: calculate_aggressor_volumes is the stated
\* cascade: spread analysis only when bid, ask and ltp are present and
\* ask >= bid; order-book pressure when that gave (0, 0) and the resting
\* quantities have a positive sum; the price change ch only when that gave
\* (0, 0) too.  A tick with ask < bid, no resting quantities and ch > 0 is
\* all buy.
C24_CascadeOrder ==
    (last.op = "calculate_aggressor_volumes" /\ PlainBook(last.in.msg)) =>
        /\ Val(last.out) = StatedCascade(last.in.msg, last.in.vol)
        /\ (/\ IsSome(last.in.msg.bid_price) /\ IsSome(last.in.msg.ask_price)
            /\ Val(last.in.msg.ask_price) < Val(last.in.msg.bid_price)
            /\ ~HasBook(last.in.msg)
            /\ IsSome(last.in.msg.ch) /\ Val(last.in.msg.ch) > 0) =>
               Val(last.out) = <<last.in.vol, 0>>

\* C25 - cum_volume snapshot: the candle returned for an accepted tick carries
\* the most recent valid vol_traded_today seen for the symbol
\* (_last_cum_volume, which a tick rejected for an implausible jump updates
\* too); only when none was ever seen is it vol for a new candle and the
\* previous cum_volume + vol for an update.
C25_CumVolumeSnapshot ==
    [][ (LiveStep /\ last'.did \in {"new", "update"}) =>
           IF IsSome(AggAfter.last_cum_volume)
           THEN Val(last'.ret).cum_volume = AggAfter.last_cum_volume
           ELSE IF last'.did = "new"
           THEN Val(last'.ret).cum_volume = Some(last'.vol)
           ELSE Val(last'.ret).cum_volume
                   = Some(Val(Val(AggBefore.candle).cum_volume) + last'.vol) ]_vars

\* the reconciliation ran on the input of `last`
Reconciled == last.op = "_reconcile_candle_and_footprint"
\* the candle and the map it left
ReconciledCandle == Val(Val(last.out).candle)
ReconciledMap == Val(last.out).fp
\* what the map of the input lacked against the reconciled totals
ResidualBuy == ReconciledCandle.buy_vol - FpBuy(last.in.fp)
ResidualSell == ReconciledCandle.sell_vol - FpSell(last.in.fp)
\* the bucket of largest buy + sell of the input's map
LargestBucket == FirstMaxIndex([i \in 1..Len(last.in.fp) |->
                                  last.in.fp[i].buy + last.in.fp[i].sell])

\* C26 - residual placement: when a non-empty footprint map differs from the
\* candle's (buy_vol, sell_vol) by (d_buy, d_sell), the reconciliation adds
\* both differences to the one bucket of largest buy + sell, leaves the other
\* buckets as they were, and the map totals equal the candle totals
\* afterwards, also when a negative difference exceeds what that bucket holds.
C26_ResidualPlacement ==
    (/\ Reconciled /\ last.in.fp # <<>>
     /\ (ResidualBuy # 0 \/ ResidualSell # 0)) =>
        /\ Len(ReconciledMap) = Len(last.in.fp)
        /\ \A i \in 1..Len(last.in.fp) :
              i # LargestBucket => ReconciledMap[i] = last.in.fp[i]
        /\ ReconciledMap[LargestBucket].k = last.in.fp[LargestBucket].k
        /\ ReconciledMap[LargestBucket].buy = last.in.fp[LargestBucket].buy + ResidualBuy
        /\ ReconciledMap[LargestBucket].sell = last.in.fp[LargestBucket].sell + ResidualSell
        /\ FpBuy(ReconciledMap) = ReconciledCandle.buy_vol
        /\ FpSell(ReconciledMap) = ReconciledCandle.sell_vol

\* the ladder of the input before its totals are reconciled
RawLadder ==
    Ladder(last.in.fp_map, last.in.bucket_value,
           LadderWindow(last.in.candle, last.in.bucket_value))
\* the differences spread with the signed allocator, then the residual at
\* the largest level
SignedLadder ==
    LET d_buy == last.in.candle.buy_vol - LadderBuy(RawLadder)
        d_sell == last.in.candle.sell_vol - LadderSell(RawLadder)
    IN  LadderFix(IF LadderBuy(RawLadder) + LadderSell(RawLadder) > 0
                  THEN LadderPlus(RawLadder,
                                  proportional_alloc_signed(d_buy, LadderWeights(RawLadder)),
                                  proportional_alloc_signed(d_sell, LadderWeights(RawLadder)))
                  ELSE RawLadder,
                  last.in.candle.buy_vol, last.in.candle.sell_vol)

\* C27 - footprint builder guarantee: for B > 0 and a non-empty map the
\* ladder built for a candle sums to the candle's buy_vol and sell_vol, a
\* positive or a negative difference having been spread over the levels in
\* proportion to their buy + sell volume (signed allocation) before the
\* residual goes to the largest level; also for maps whose totals exceed the
\* candle's and for maps with keys outside [low, high].
C27_BuilderGuarantee ==
    LadderBuilt =>
        /\ LadderBuy(BuiltLadder) = last.in.candle.buy_vol
        /\ LadderSell(BuiltLadder) = last.in.candle.sell_vol
        /\ BuiltLadder = SignedLadder

\* the row reconciled by process_hist_data
HistReconciled == last.op = "process_hist_data"
HistRow == Val(last.out)

\* C28 - historical reconciliation equals live reconciliation: for every row
\* (volume, buy_vol, sell_vol, open, close) of non-negative integers the
\* per-row reconciliation of process_hist_data gives the (buy_vol, sell_vol)
\* that the volume-totals block of _reconcile_candle_and_footprint gives, also
\* when volume is under-allocated, both sides are non-zero and the exact
\* share has fractional part one half.
C28_HistEqualsLive ==
    HistReconciled =>
        <<HistRow.buy_vol, HistRow.sell_vol>> = ReconcileTotals(ReconcileCandle(last.in))

\* the frame of the footprint of the call that `last` records
HistExpanded ==
    Expanded(last.in.df, IntervalOf(last.in.timeframe), last.in.cols, last.in.bucket_value)

\* C29 - historical footprint conservation with duplicates: with the
\* footprint requested and B > 0, fine bars repeated under one timestamp (and
\* symbol) enter the footprint once, as they enter the candle totals once,
\* and every output candle with a non-empty footprint has sum(buyVolume) =
\* buy_vol and sum(sellVolume) = sell_vol.
C29_HistFootprint ==
    HistDone =>
        \A r \in HistRows :
            /\ Val(r.footprint) # <<>> =>
                  /\ LadderBuy(Val(r.footprint)) = r.buy_vol
                  /\ LadderSell(Val(r.footprint)) = r.sell_vol
            /\ Val(r.footprint) =
                  build_footprint_from_map(r, HistFpMap(HistExpanded, BinBars(r)),
                                           last.in.bucket_value)

\* C30 - distinct trades without trade_id are not collapsed: two trades
\* without trade_id that share second, price and size, vol_traded_today
\* advancing by the size each time, are both counted; over accepted
\* cumulative-volume ticks of one candle the candle's volume increases by
\* exactly the advance of last_processed_cum_volume.
C30_DistinctTrades ==
    [][ (/\ LiveStep /\ IsSome(last'.regkey)
         /\ IsSome(AggBefore.candle) /\ IsSome(AggBefore.last_processed_cum_volume)) =>
            /\ last'.did \in {"new", "update"}
            /\ Val(AggAfter.candle).volume - Val(AggBefore.candle).volume
                 = Val(AggAfter.last_processed_cum_volume)
                   - Val(AggBefore.last_processed_cum_volume) ]_vars

\* the call of the step made without hist_last_candle
Unseeded ==
    process_live_data(reg, Val(last'.msg), Val(last'.args).tf, Val(last'.args).bs,
                      Val(last'.args).mult, None, host)

\* C31 - seeding failure is all-or-nothing: when seeding from hist_last_candle
\* fails at a step (here: a malformed footprint item), process_live_data does
\* not raise, the aggregator is left as it was before the attempt and the
\* tick is processed as it is without hist_last_candle.
C31_SeedAllOrNothing ==
    [][ (/\ LiveStep /\ last'.seeded
         /\ FpFromList(Val(last'.hist).footprint, <<>>).status # "ok") =>
            /\ last'.raised = ""
            /\ reg' = Unseeded.reg
            /\ last'.ret = Unseeded.ret ]_vars

\* the hist candle of the call of the step
HistOf == Val(last'.hist)

\* C32 - seed condition: a call with hist_last_candle that returns seeds
\* exactly when the aggregator holds no candle or the held candle's time
\* differs from the hist candle's.  With equal times the call does what it
\* does without hist_last_candle.  With different times the held candle,
\* session_cum_delta, last_trading_day and last_ltp are those of the hist
\* candle, and when it exposes a cumulative volume both baselines are that
\* volume and the ring is empty (seen after a tick that the seed guard
\* answered, which leaves the seeded aggregator as it is).
C32_SeedCondition ==
    [][ (/\ LiveStep /\ IsSome(last'.hist) /\ IsSome(last'.regkey)
         /\ last'.raised = "") =>
            /\ last'.seeded <=> (\/ IsNone(AggBefore.candle)
                                 \/ Val(AggBefore.candle).time # HistOf.time)
            /\ ~last'.seeded => (reg' = Unseeded.reg /\ last'.ret = Unseeded.ret)
            /\ (last'.seeded /\ last'.did = "guard") =>
                  /\ AggAfter.candle = Some(FullSeeded(HistOf))
                  /\ AggAfter.session_cum_delta = HistOf.cum_delta
                  /\ AggAfter.last_trading_day = Some(TradingDay(HistOf.time))
                  /\ AggAfter.last_ltp = Some(HistOf.close)
                  /\ HistCumOk(HistOf) =>
                        /\ AggAfter.last_processed_cum_volume = HistOf.cum_volume
                        /\ AggAfter.last_cum_volume = HistOf.cum_volume
                        /\ AggAfter.ring = <<>> ]_vars

\* C32 witness: after earlier calls a subscription seeded from a hist candle
\* with a cumulative volume, and the aggregator holds the seed with an empty ring
C32_Witness ==
    /\ last.op = "live" /\ last.seeded /\ last.did = "guard" /\ last.raised = ""
    /\ HistCumOk(Val(last.hist))
    /\ steps >= 2
    /\ reg[Val(last.regkey)].last_processed_cum_volume = Val(last.hist).cum_volume
    /\ reg[Val(last.regkey)].candle = Some(FullSeeded(Val(last.hist)))
    /\ reg[Val(last.regkey)].ring = <<>>

\* 09:15 session time of the session day of ts
StatedOpen(ts) == ((ts + IST_OFFSET) \div 86400) * 86400 + 9 * 3600 + 15 * 60 - IST_OFFSET

\* C33 - bin alignment: for ts > 0 and an interval I of 60, 300, 900 or 86400
\* the bin is market_open + floor((ts - market_open) / I) * I when ts is at or
\* after the market open of its day and floor(ts / I) * I before it; the bin r
\* satisfies r <= ts < r + I, and the bin of r is r.
C33_BinAlignment ==
    /\ last.op = "calculate_aligned_time_bin" =>
          /\ Val(last.out) =
                IF last.in.ts >= StatedOpen(last.in.ts)
                THEN StatedOpen(last.in.ts)
                     + ((last.in.ts - StatedOpen(last.in.ts)) \div last.in.interval)
                       * last.in.interval
                ELSE (last.in.ts \div last.in.interval) * last.in.interval
          /\ Val(last.out) <= last.in.ts
          /\ last.in.ts < Val(last.out) + last.in.interval
    /\ last.op = "calculate_aligned_time_bin again" => Val(last.out) = last.in.ts

\* C33 witness: a daily bin that lies before the open of its day (at 05:30
\* session time) was aligned again and came back
C33_Witness ==
    /\ last.op = "calculate_aligned_time_bin again"
    /\ last.in.interval = 86400
    /\ last.in.ts < StatedOpen(last.in.ts)
    /\ Val(last.out) = last.in.ts
    /\ (last.in.ts + IST_OFFSET) % 86400 = IST_OFFSET


\* ------------------------------------------ an ordered feed across a midnight

MaxNightSteps == 3

\* feed times of one symbol in increasing order: in the first session, after
\* its close, half an hour after the session midnight, after the UTC midnight
\* before the open, and in the next session
NightTimes ==
    { Day0Open + 1, Day0Open + 40000, Day0Open + 54900, Day0Open + 75000,
      Day0Open + 86400 + 1 }

NightKey(tf) == LiveKey("X", tf, Args5m.bs, Args5m.mult)

\* the latest feed time delivered to the key of a timeframe
NightClock(tf) == IF NightKey(tf) \in DOMAIN gh THEN gh[NightKey(tf)].maxTs ELSE 0

\* a trade of one of the four timeframes that is not older than the trades
\* delivered to its key before
NightTick ==
    \E tf \in {"1m", "5m", "15m", "1d"}, t \in NightTimes :
        /\ t >= NightClock(tf)
        /\ DeliverWithin(MaxNightSteps, ArgsT(tf), Tick(Some(t), 10000, Some(3), None, None), None)

SpecNight == Init /\ [][NightTick]_vars

\* C34 - candle time is monotone under ordered input: when the ticks of a key
\* arrive with non-decreasing timestamps, the time of the current candle never
\* decreases, for 1m, 5m, 15m and 1d, including ticks between midnight and
\* the next session open.
C34_MonotoneCandleTime ==
    [][ (/\ LiveStep /\ gh'[Val(last'.regkey)].ordered
         /\ last'.did \in {"new", "update"} /\ IsSome(AggBefore.candle)) =>
            Val(AggAfter.candle).time >= Val(AggBefore.candle).time ]_vars


\* C35 - OHLC consistency: every candle returned after an accepted tick has
\* low <= open <= high and low <= close <= high, including the first candle
\* of a day when the tick carries an open_price different from its ltp.
C35_OHLCConsistent ==
    Accepted =>
        /\ Returned.low <= Returned.open /\ Returned.open <= Returned.high
        /\ Returned.low <= Returned.close /\ Returned.close <= Returned.high


\* C36 - rejected tick frame: whenever process_tick returns null (invalid
\* tick, extracted volume out of range, or duplicate key), the current
\* candle, the footprint map, session_cum_delta, last_trading_day and the
\* contents of the dedup ring are unchanged.
C36_RejectedTickFrame ==
    [][ (/\ LiveStep /\ last'.raised = "" /\ last'.did \in {"invalid", "novol", "dup"}) =>
            /\ AggAfter.candle = CandleMet
            /\ last'.seeded \/
                 /\ AggAfter.fp = AggBefore.fp
                 /\ AggAfter.session_cum_delta = AggBefore.session_cum_delta
                 /\ AggAfter.last_trading_day = AggBefore.last_trading_day
                 /\ AggAfter.ring = AggBefore.ring ]_vars
\* a duplicate was rejected while a candle with a footprint was held
C36_Witness ==
    /\ last.op = "live" /\ last.did = "dup" /\ ~last.seeded
    /\ IsSome(reg[Val(last.regkey)].candle)
    /\ reg[Val(last.regkey)].fp # <<>>
    /\ reg[Val(last.regkey)].ring # <<>>


\* ----------------------------- a feed that reports only cumulative volumes

MaxRecoverSteps == 4

\* the key's last reported cumulative volume (90 before the first tick)
RecoverCum ==
    IF Key5m \in DOMAIN reg /\ IsSome(reg[Key5m].last_cum_volume)
    THEN Val(reg[Key5m].last_cum_volume) ELSE 90

\* the next tick of the session: a second later, no last_traded_qty, and a
\* vol_traded_today that grew by a few lots or by more than the cap
RecoverTick ==
    \E d \in {10, 20, MaxCumJump + 1} :
        DeliverWithin(MaxRecoverSteps, Args5m,
                      Tick(Some(Day0Open + steps + 1), 10000, None, Some(RecoverCum + d), None),
                      None)

\* the count of delivered ticks advances; under [][RecoverTick]_vars every
\* such step is a RecoverTick step, and one is possible while the bound lasts
FeedAdvances == steps < MaxRecoverSteps /\ steps' = steps + 1

\* the feed thread keeps delivering while the session lasts; the session
\* ends after MaxRecoverSteps ticks
SpecRecover == Init /\ [][RecoverTick]_vars /\ WF_steps(FeedAdvances)

\* the last tick was rejected because its cumulative volume is more than the
\* cap above the baseline
OutlierRejected ==
    /\ last.op = "live" /\ last.did = "novol"
    /\ IsSome(Val(last.msg).vol_traded_today)
    /\ IsSome(reg[Val(last.regkey)].last_processed_cum_volume)
    /\ Val(Val(last.msg).vol_traded_today)
         - Val(reg[Val(last.regkey)].last_processed_cum_volume) > MaxCumJump

\* C37 - recovery after an outlier: after a tick was rejected because its
\* cumulative volume jumped by more than the cap over the baseline and it had
\* no usable last_traded_qty, a later tick of the session with a higher
\* vol_traded_today is eventually accepted.
C37_RecoveryAfterOutlier ==
    (OutlierRejected /\ steps < MaxRecoverSteps) ~> Accepted


\* ------------------------------------------------ the socket event handlers

MaxSockSteps == 3

\* subscribe_symbol events: charts c0 and c1 of one client on symbol X with
\* timeframe 5m or 1m, with or without a hist_seed, and chart c0 on symbol Y
SockHist ==
    Hist(Day0Open + 300, 10000, 30, 20, 10, 50, Some(130),
         <<Level(10500, 15, 5), Level(10000, 5, 5)>>)

SubscribeEvents ==
    { [symbol |-> "X", args |-> ArgsT(tf), sid |-> "s1", chart_id |-> c, hist_seed |-> h] :
        c \in {"c0", "c1"}, tf \in {"5m", "1m"}, h \in {None, Some(SockHist)} }
    \cup { [symbol |-> "Y", args |-> Args5m, sid |-> "s1", chart_id |-> "c0",
            hist_seed |-> None] }

UnsubscribeEvents ==
    { [symbol |-> "X", sid |-> "s1", chart_id |-> "c0"],
      [symbol |-> "X", sid |-> "s1", chart_id |-> "c1"],
      [symbol |-> "Y", sid |-> "s1", chart_id |-> "c0"] }

\* feed messages for X in the bin of the seed: a trade with a quantity only,
\* one with a quantity and a cumulative volume, one with a cumulative volume only
SockTicks ==
    { Tick(TC, 10500, Some(7), None, Some(1)),
      Tick(TC, 10500, Some(3), Some(140), None),
      Tick(TC, 10500, None, Some(150), None) }

\* room_id = f"{sid}_{chart_id}_{symbol}_{timeframe}_{bucket_size}_{multiplier}"
\* after bucket_size = float(..), multiplier = int(..)
RoomId(e) ==
    <<e.sid, e.chart_id, e.symbol, e.args.tf,
      FormatArg(ToFloat(e.args.bs)), FormatArg(ToInt(e.args.mult))>>

\* the entry of subscriber_rooms; carried and seeded are bookkeeping: whether
\* the event carried a hist_seed, and whether the event's handler called
\* process_live_data with it for the key of the room
Room(e) ==
    [timeframe |-> e.args.tf, symbol |-> e.symbol, bucket_size |-> ToFloat(e.args.bs),
     multiplier |-> ToInt(e.args.mult), seeded |-> FALSE,
     chart_id |-> e.chart_id, room_id |-> RoomId(e),
     client_id |-> e.sid, carried |-> IsSome(e.hist_seed)]

RoomArgs(room) == [bs |-> room.bucket_size, tf |-> room.timeframe, mult |-> room.multiplier]

RoomKey(room) == LiveKey(room.symbol, room.timeframe, room.bucket_size, room.multiplier)

\* subscriber_rooms[room_id] = {...}: assignment keeps the position of a key
PutRoom(rooms, room) ==
    IF \E i \in DOMAIN rooms : rooms[i].room_id = room.room_id
    THEN [i \in DOMAIN rooms |-> IF rooms[i].room_id = room.room_id THEN room ELSE rooms[i]]
    ELSE Append(rooms, room)

\* The handlers below work on w = [reg, gh, sock, calls]: the registry, its
\* bookkeeping, the globals of socket_events, and the process_live_data
\* calls made so far by the handler.

\* w after a process_live_data call for room, whose result is r
Called(w, room, args, msg, hist, key, r) ==
    [w EXCEPT
       !.reg = r.reg,
       !.gh = [k \in DOMAIN r.reg |->
                 IF k = key
                 THEN GhostAfter(IF key \in DOMAIN w.gh THEN w.gh[key] ELSE NewGhost(args),
                                 RegSlot(w.reg, key), r, msg, hist)
                 ELSE w.gh[k]],
       !.calls = Append(@, [vol |-> r.vol, key |-> key, did |-> r.did, ret |-> r.ret,
                            hist |-> hist, raised |-> r.raised, room |-> room])]

CallLive(w, room, args, msg, hist) ==
    Called(w, room, args, msg, hist, LiveKey(msg.symbol, args.tf, args.bs, args.mult),
           process_live_data(w.reg, msg, args.tf, args.bs, args.mult, hist, host))

\* start_live_feed, the seeding block: a truthy hist_seed is passed to
\* process_live_data with the seeding tick; an exception is printed
SeedFromFrontend(w, e) ==
    IF IsSome(e.hist_seed)
    THEN CallLive(w, RoomId(e), e.args,
                  [PrimingTick(Val(e.hist_seed)) EXCEPT !.symbol = e.symbol], e.hist_seed)
    ELSE w

\* start_global_feed: a feed thread is started; global_feed stays as it is
start_global_feed(w) == [w EXCEPT !.sock.feeds = Append(@, "started")]

\* start_live_feed from `if global_feed is None` on
GlobalFeedEnsured(w) == IF IsNone(w.sock.global_feed) THEN start_global_feed(w) ELSE w

start_live_feed(w, e) ==
    IF e.symbol \in DOMAIN w.sock.live_feeds
    THEN [w EXCEPT !.sock.subscribed_symbols = @ \cup {e.symbol},
                   !.sock.live_feeds[e.symbol] = @ + 1]
    ELSE GlobalFeedEnsured(
            SeedFromFrontend(
                [w EXCEPT !.sock.subscribed_symbols = @ \cup {e.symbol},
                          !.sock.live_feeds =
                              [s \in DOMAIN @ \cup {e.symbol} |->
                                 IF s = e.symbol THEN 1 ELSE @[s]]],
                e))

\* bookkeeping: the room of the event is marked when the handler made a
\* seeding call for its key
RoomMarked(w, e) ==
    [w EXCEPT !.sock.subscriber_rooms =
        [i \in DOMAIN w.sock.subscriber_rooms |->
           IF w.sock.subscriber_rooms[i].room_id = RoomId(e)
           THEN [w.sock.subscriber_rooms[i] EXCEPT !.seeded =
                    \E c \in DOMAIN w.calls :
                        w.calls[c].key = RoomKey(Room(e)) /\ IsSome(w.calls[c].hist)]
           ELSE w.sock.subscriber_rooms[i]]]

handle_subscribe_symbol(w, e) ==
    RoomMarked(
        start_live_feed([w EXCEPT !.sock.subscriber_rooms = PutRoom(@, Room(e))], e), e)

\* stop_live_feed_if_no_subscribers from `if not has_subscribers` on
FeedStopped(w, symbol) ==
    [w EXCEPT
       !.sock.subscribed_symbols = @ \ {symbol},
       !.sock.live_feeds = [s \in DOMAIN @ \ {symbol} |-> @[s]],
       !.sock.global_feed =
           IF w.sock.subscribed_symbols \ {symbol} = {} THEN None ELSE @,
       !.sock.feeds =
           IF w.sock.subscribed_symbols \ {symbol} = {} /\ IsSome(w.sock.global_feed)
           THEN [@ EXCEPT ![Val(w.sock.global_feed)] = "closed"] ELSE @]

stop_live_feed_if_no_subscribers(w, symbol) ==
    IF symbol \notin DOMAIN w.sock.live_feeds THEN w
    ELSE IF \E i \in DOMAIN w.sock.subscriber_rooms : w.sock.subscriber_rooms[i].symbol = symbol
    THEN w
    ELSE FeedStopped(w, symbol)

RoomLeft(e, room) ==
    room.client_id = e.sid /\ room.symbol = e.symbol /\ room.chart_id = e.chart_id

KeptRoom(e, room) == ~RoomLeft(e, room)

handle_unsubscribe_symbol(w, e) ==
    stop_live_feed_if_no_subscribers(
        [w EXCEPT !.sock.subscriber_rooms = SelectSeq(@, LAMBDA room : KeptRoom(e, room))],
        e.symbol)

RECURSIVE ForRooms(_, _, _)
\* process_single_message, the loop over matching_rooms
ForRooms(w, rooms, msg) ==
    IF rooms = <<>> THEN w
    ELSE ForRooms(CallLive(w, Head(rooms).room_id, RoomArgs(Head(rooms)), msg, None),
                  Tail(rooms), msg)

process_single_message(w, msg) ==
    IF msg.symbol = "" \/ msg.symbol \notin w.sock.subscribed_symbols THEN w
    ELSE ForRooms(w, SelectSeq(w.sock.subscriber_rooms,
                               LAMBDA room : room.symbol = msg.symbol), msg)

\* the state after a handler that turned the current state into w
Handled(op, event, w) ==
    /\ reg' = w.reg
    /\ gh' = w.gh
    /\ sock' = w.sock
    /\ last' = [op |-> op, calls |-> w.calls, event |-> event]
    /\ steps' = steps + 1
    /\ UNCHANGED <<host, thr>>

Now == [reg |-> reg, gh |-> gh, sock |-> sock, calls |-> <<>>]

\* a client subscribes a chart
SubscribeSymbol ==
    \E e \in SubscribeEvents :
        /\ steps < MaxSockSteps
        /\ Handled("subscribe_symbol", e, handle_subscribe_symbol(Now, e))

\* a client unsubscribes a chart
UnsubscribeSymbol ==
    \E e \in UnsubscribeEvents :
        /\ steps < MaxSockSteps
        /\ Handled("unsubscribe_symbol", e, handle_unsubscribe_symbol(Now, e))

\* run_global_live_feed: a started feed thread builds its socket, assigns it
\* to global_feed and connects
FeedPublish ==
    \E i \in DOMAIN sock.feeds :
        /\ sock.feeds[i] = "started"
        /\ sock' = [sock EXCEPT !.global_feed = Some(i), !.feeds[i] = "open"]
        /\ UNCHANGED <<reg, host, last, gh, steps, thr>>

\* an open connection delivers a message to global_live_data_callback
Dispatch ==
    \E m \in SockTicks :
        /\ steps < MaxSockSteps
        /\ \E i \in DOMAIN sock.feeds : sock.feeds[i] = "open"
        /\ Handled("live_data", m, process_single_message(Now, m))

NextSock == SubscribeSymbol \/ UnsubscribeSymbol \/ FeedPublish \/ Dispatch

SpecSock == Init /\ [][NextSock]_vars

\* the feed threads started and not closed
FeedsRunning == { i \in DOMAIN sock.feeds : sock.feeds[i] # "closed" }

\* C38 - single feed: for every interleaving of subscribe and unsubscribe
\* events at most one global feed thread is started while the previous one
\* has not been closed, also when two subscriptions for different symbols
\* arrive before the feed thread has published global_feed.
C38_SingleFeed == Cardinality(FeedsRunning) <= 1


\* the last step was a feed message passed to the rooms of its symbol
Dispatched == last.op = "live_data"
\* the calls i < j of the last handler went to the same aggregator, and call i
\* counted the message
FannedOut(i, j) ==
    /\ i < j /\ last.calls[i].key = last.calls[j].key
    /\ last.calls[i].did \in {"new", "update"}

\* C39 - fan-out does not double count: when several rooms subscribe to the
\* same (symbol, timeframe, bucket_size, multiplier) and the dispatcher calls
\* process_live_data once per room for one feed message, the shared aggregator
\* counts the message's volume once and every one of those rooms receives the
\* updated candle.
C39_FanOutCountsOnce ==
    Dispatched =>
        \A i \in DOMAIN last.calls : \A j \in DOMAIN last.calls :
            FannedOut(i, j) =>
                /\ last.calls[j].did \notin {"new", "update"}
                /\ IsSome(last.calls[j].ret)

\* the room of a process_live_data call of the last handler
RoomOf(c) ==
    CHOOSE i \in DOMAIN sock.subscriber_rooms : sock.subscriber_rooms[i].room_id = c.room

\* C40 - every subscription is seeded: each subscribe_symbol event that
\* carries a hist_seed seeds the aggregator of its own (symbol, timeframe,
\* bucket_size, multiplier) before the first live tick is processed for that
\* room, also for a second subscription to an already subscribed symbol with
\* a different timeframe or bucket size.
C40_EverySubscriptionSeeded ==
    Dispatched =>
        \A c \in DOMAIN last.calls :
            sock.subscriber_rooms[RoomOf(last.calls[c])].carried =>
                sock.subscriber_rooms[RoomOf(last.calls[c])].seeded

====
